---- MODULE Spec2Model ----
(***************************************************************************)
(* A model of the agent runtime of agentic-kubernetes-operator:           *)
(*   - mcptools/client.py : MCPClient (tool discovery and execution)       *)
(*   - agent/memory.py    : LocalMemory (per-session event log)            *)
(*   - agent/client.py    : Agent.process_message (one conversational turn)*)
(* Every coroutine is cut at its real suspension points (an outbound HTTP  *)
(* request, a yield to the consumer); the code between two of them runs    *)
(* atomically on the single-threaded event loop.                           *)
(***************************************************************************)
EXTENDS Integers, Sequences, FiniteSets, TLC

VARIABLES
    tools,      \* MCPClient._tools: the tool cache, a sequence of Tool
    sweep,      \* the discover_tools invocations, one record per caller
    call,       \* the call_tool invocations, one record per caller
    sessions,   \* LocalMemory._sessions: session id -> events
    nextEvent,  \* the events created so far (event ids are fresh)
    nextGen,    \* the session ids generated so far
    hasContext, \* whether the memory object provides build_conversation_context
    turn,       \* the process_message invocations, one record per caller
    added,      \* history: per session, the events add_event was called with
                \* since the session was created
    agent_card, \* RemoteAgent.agent_card of the agent's peer: <<>> or <<card>>
    rcall,      \* the discover / invoke / delegate invocations on the peer
    peerSessions, \* LocalMemory._sessions of the peer agent's own process
    handlers,   \* the peer's /agent/invoke handler invocations, by the
                \* session each of them created
    tool_clients, \* Agent.tools: the MCPClients added, each with its cache
    remote_agents, \* Agent.sub_agents: the names of the RemoteAgents added
    additions,  \* history: the add_tools and add_sub_agent calls, in order
    last_card,  \* the last card get_agent_card returned: <<>> or <<card>>
    xcall,      \* the Agent.execute_tool invocation
    http,       \* the request the AgentServer is handling, and its response
    built       \* the last conversation context built from the memory

vars == <<tools, sweep, call, sessions, nextEvent, nextGen, hasContext, turn, added,
          agent_card, rcall, peerSessions, handlers, tool_clients, remote_agents, additions, last_card, xcall,
          http, built>>
toolVars == <<tools, sweep, call>>
agentVars == <<sessions, nextEvent, nextGen, hasContext, turn, added>>
peerVars == <<agent_card, rcall, peerSessions, handlers>>
configVars == <<tool_clients, remote_agents, additions, last_card>>

----------------------------------------------------------------------------
(* Bounds *)

\* configured tool servers (len(server_urls))
NumServers == 2
\* entries in one discovery response
MaxEntries == 2
\* explicit session ids a caller may pass (1..NumSessionIds)
NumSessionIds == 1
\* events created in one run
MaxEvents == 3
\* sessions created without an explicit id in one run
MaxGenerated == 1
\* requests the gateway passes on to process_message in one run
MaxRequests == 2
\* chunks of one backend stream
MaxChunks == 2
\* add_tools calls, and add_sub_agent calls, on one agent
MaxConfigured == 2
\* the requests the peer's handler takes up
MaxHandled == 2

Servers == 1..NumServers
\* the callers of discover_tools and of call_tool
Sweeps == {"d1"}
Calls == {"c1"}
ToolNames == {"x", "y"}
ResultValues == {"v1", "v2"}
\* the callers of process_message
Turns == {"t1", "t2"}
\* Text is a sequence of tokens; Messages are the user's texts, Contents the
\* backend's complete answers, Chunks the pieces of a streamed answer (a
\* delta may be empty), ModelErrors the exceptions of a backend call.
Messages == {<<"hi">>}
Contents == {<<"a", "b">>}
Chunks == {<<>>, <<"a">>, <<"b">>}
ModelErrors == {"HTTPError", "KeyError"}

\* Sequences over S of length at most n.
SeqUpTo(S, n) == UNION {[1..k -> S] : k \in 0..n}

RECURSIVE Flatten(_)
\* Concatenation of a sequence of sequences.
Flatten(ss) == IF ss = <<>> THEN <<>> ELSE Head(ss) \o Flatten(Tail(ss))

----------------------------------------------------------------------------
(* mcptools/client.py *)

\* MCPClient.server_urls: the configured servers, in configuration order.
server_urls == [i \in 1..NumServers |-> i]

\* _discover_tools_from_server: endpoints_to_try
DiscoveryEndpoints == <<"/mcp/tools", "/tools", "/v1/tools">>

\* Mutant of ExecutionEndpoints: the first two candidates swapped.
ExecutionEndpointsSwapped == <<"/call", "/mcp/call", "/v1/call">>

\* _execute_tool: endpoints_to_try
ExecutionEndpoints == <<"/mcp/call", "/call", "/v1/call">>

\* One entry of a discovery response: a dict (its "name", "" when it has
\* none) or something that is not a dict.
Entries == [kind : {"dict"}, name : ToolNames \cup {""}]
           \cup [kind : {"notdict"}, name : {""}]

\* The JSON body of a discovery response: a bare list, a dict whose "tools"
\* is a list (or is missing: `.get("tools", [])`), a dict whose "tools" cannot
\* be iterated (null, a number, a boolean), or any other JSON value.
ToolsData == [format : {"list", "dict"}, entries : SeqUpTo(Entries, MaxEntries)]
             \cup [format : {"dict_noniterable", "other"}, entries : {<<>>}]

\* What one HTTP request can come to:
\*   ok       a 2xx response whose body is JSON
\*   badjson  a 2xx response whose body is not JSON (response.json() raises
\*            json.JSONDecodeError, a ValueError)
\*   status   a non-2xx response (raise_for_status raises HTTPStatusError)
\*   neterr   no response: refused connection, timeout (httpx.RequestError)
FailedOutcomes == [kind : {"status"}, code : {404, 500}]
                  \cup [kind : {"neterr", "badjson"}, code : {0}]

GetOutcomes == [kind : {"ok"}, code : {200}, data : ToolsData]
               \cup {[kind |-> o.kind, code |-> o.code, data |-> [format |-> "other", entries |-> <<>>]] :
                        o \in FailedOutcomes}

\* The JSON body of an execution response: a dict with "result", another
\* dict, or a bare value.
ResultData == [shape : {"dict_result", "dict_plain", "bare"}, val : ResultValues]

PostOutcomes == [kind : {"ok"}, code : {200}, data : ResultData]
                \cup {[kind |-> o.kind, code |-> o.code, data |-> [shape |-> "bare", val |-> "v1"]] :
                         o \in FailedOutcomes}

Tool(name, server_url) == [name |-> name, server_url |-> server_url]

RECURSIVE ParseEntries(_, _), ParseEntriesAbort(_, _)
\* Mutant of ParseEntries: the first entry that is not a dict or has no
\* name ends the parsing.
ParseEntriesAbort(entries, server_url) ==
    IF entries = <<>> THEN <<>>
    ELSE LET e == Head(entries)
         IN IF e.kind # "dict" \/ e.name = "" THEN <<>>
            ELSE <<Tool(e.name, server_url)>> \o ParseEntriesAbort(Tail(entries), server_url)

\* _parse_tools_response, the loop over tools_list: entries that are not
\* dicts or have an empty name are skipped.
ParseEntries(entries, server_url) ==
    IF entries = <<>> THEN <<>>
    ELSE LET e == Head(entries)
             rest == ParseEntries(Tail(entries), server_url)
         IN IF e.kind # "dict" THEN rest
            ELSE IF e.name = "" THEN rest
            ELSE <<Tool(e.name, server_url)>> \o rest

\* _parse_tools_response: the tools of a response, ValueError for a body
\* that is neither a list nor a dict, or the TypeError of `for tool_data in
\* tools_list` when the "tools" of a dict cannot be iterated (the loop
\* statement is outside the per-entry try).
ParseToolsResponse(tools_data, server_url) ==
    IF tools_data.format \in {"list", "dict"}
    THEN [ok |-> TRUE, error |-> "", tools |-> ParseEntries(tools_data.entries, server_url)]
    ELSE IF tools_data.format = "dict_noniterable"
    THEN [ok |-> FALSE, error |-> "TypeError", tools |-> <<>>]
    ELSE [ok |-> FALSE, error |-> "ValueError", tools |-> <<>>]

\* Mutant of ProbeDiscovery: every HTTP status error moves on to the next
\* endpoint, not only 404.
ProbeDiscoveryAnyStatus(out, server_url) ==
    IF out.kind = "ok"
    THEN LET p == ParseToolsResponse(out.data, server_url)
         IN IF p.ok THEN [step |-> "found", tools |-> p.tools]
            ELSE IF p.error = "ValueError" THEN [step |-> "next", tools |-> <<>>]
            ELSE [step |-> "raise", tools |-> <<>>]
    ELSE [step |-> "next", tools |-> <<>>]

\* _discover_tools_from_server, one pass of its loop: what the request to
\* one endpoint comes to.
\*   "found"  the server's tools are returned
\*   "next"   the next endpoint is tried (404, RequestError, ValueError)
\*   "raise"  the error leaves _discover_tools_from_server (another status,
\*            or the TypeError of a body whose "tools" cannot be iterated:
\*            only HTTPStatusError, RequestError and ValueError are caught)
ProbeDiscovery(out, server_url) ==
    IF out.kind = "ok"
    THEN LET p == ParseToolsResponse(out.data, server_url)
         IN IF p.ok THEN [step |-> "found", tools |-> p.tools]
            ELSE IF p.error = "ValueError" THEN [step |-> "next", tools |-> <<>>]
            ELSE [step |-> "raise", tools |-> <<>>]
    ELSE IF out.kind = "status"
    THEN IF out.code = 404 THEN [step |-> "next", tools |-> <<>>]
         ELSE [step |-> "raise", tools |-> <<>>]
    ELSE [step |-> "next", tools |-> <<>>]

\* A discover_tools invocation: its position (pc; srv and ep index the
\* server and the endpoint of the next request), its locals, its return
\* value or the exception it raised, and `served`: the servers that
\* answered so far, each with the entries of its answer (a record of what
\* the environment did), and `probes`: the requests sent to the server
\* `probed`, the one the sweep is at or was at last (path, what the request
\* came to, and how the loop went on).
IdleSweep == [pc |-> "idle", srv |-> 1, ep |-> 1, all_tools |-> <<>>,
              successful_discoveries |-> 0, served |-> <<>>, result |-> <<>>,
              error |-> "", probed |-> 0, probes |-> <<>>]

\* discover_tools, entry: the locals are set up, nothing is requested yet.
DiscoverStart(d) ==
    /\ sweep[d].pc \in {"idle", "returned", "raised"}
    /\ sweep' = [sweep EXCEPT ![d] = [IdleSweep EXCEPT !.pc = "probing"]]
    /\ UNCHANGED <<tools, call, agentVars, peerVars, configVars, xcall, http, built>>

\* Mutant of CacheTools: the sweep's tools are added to the cache instead
\* of replacing it.
CacheToolsExtend(all_tools) == tools \o all_tools

\* The cache assignment of discover_tools (self._tools = all_tools).
CacheTools(all_tools) == all_tools

\* Mutant of DiscoverFinish: the cache is assigned before the check of
\* successful_discoveries.
DiscoverFinishCacheFirst(d, s) ==
    IF s.successful_discoveries = 0
    THEN /\ sweep' = [sweep EXCEPT ![d] = [s EXCEPT !.pc = "raised", !.error = "HTTPError"]]
         /\ tools' = CacheTools(s.all_tools)
    ELSE /\ sweep' = [sweep EXCEPT ![d] = [s EXCEPT !.pc = "returned", !.result = s.all_tools]]
         /\ tools' = CacheTools(s.all_tools)

\* discover_tools, after the loop over the servers: raise when no server
\* responded, else cache and return the tools.
DiscoverFinish(d, s) ==
    IF s.successful_discoveries = 0
    THEN /\ sweep' = [sweep EXCEPT ![d] = [s EXCEPT !.pc = "raised", !.error = "HTTPError"]]
         /\ tools' = tools
    ELSE /\ sweep' = [sweep EXCEPT ![d] = [s EXCEPT !.pc = "returned", !.result = s.all_tools]]
         /\ tools' = CacheTools(s.all_tools)

\* Mutant of DiscoverNextServer: the cache is assigned after every server
\* of the loop, not once after the loop.
DiscoverNextServerCaching(d, s) ==
    IF s.srv = Len(server_urls)
    THEN DiscoverFinish(d, s)
    ELSE /\ sweep' = [sweep EXCEPT ![d] = [s EXCEPT !.srv = s.srv + 1, !.ep = 1]]
         /\ tools' = CacheTools(s.all_tools)

\* discover_tools, the end of one server's turn in the loop: on to the next
\* server, or out of the loop.
DiscoverNextServer(d, s) ==
    IF s.srv = Len(server_urls)
    THEN DiscoverFinish(d, s)
    ELSE /\ sweep' = [sweep EXCEPT ![d] = [s EXCEPT !.srv = s.srv + 1, !.ep = 1]]
         /\ tools' = tools

\* The exception one request of _discover_tools_from_server comes to, ""
\* when it returns the tools.
ProbeError(out) ==
    IF out.kind = "ok" THEN ParseToolsResponse(out.data, 1).error
    ELSE IF out.kind = "status" THEN "HTTPStatusError"
    ELSE IF out.kind = "neterr" THEN "RequestError"
    ELSE "ValueError"

\* discover_tools: one GET of the sweep and everything up to the next one.
\* A server whose discovery raised (caught by `except Exception`) adds
\* nothing; one that answered adds its tools and counts as successful.
\* `outcomes` is what the environment may answer.
DiscoverProbeWith(d, outcomes) ==
    /\ sweep[d].pc = "probing"
    /\ \E out \in outcomes :
        LET s0 == sweep[d]
            url == server_urls[s0.srv]
            r == ProbeDiscovery(out, url)
            s == [s0 EXCEPT !.probed = url,
                            !.probes = Append(IF s0.ep = 1 THEN <<>> ELSE s0.probes,
                                    [path |-> DiscoveryEndpoints[s0.ep], kind |-> out.kind,
                                     code |-> out.code, error |-> ProbeError(out),
                                     step |-> r.step])]
        IN  IF r.step = "found"
            THEN DiscoverNextServer(d,
                    [s EXCEPT !.all_tools = s.all_tools \o r.tools,
                              !.successful_discoveries = s.successful_discoveries + 1,
                              !.served = Append(s.served,
                                    [server_url |-> url, entries |-> out.data.entries])])
            ELSE IF r.step = "next" /\ s.ep < Len(DiscoveryEndpoints)
            THEN /\ sweep' = [sweep EXCEPT ![d] = [s EXCEPT !.ep = s.ep + 1]]
                 /\ tools' = tools
            ELSE DiscoverNextServer(d, s)
    /\ UNCHANGED <<call, agentVars, peerVars, configVars, xcall, http, built>>

DiscoverProbe(d) == DiscoverProbeWith(d, GetOutcomes)

----------------------------------------------------------------------------
(* call_tool *)

\* A call_tool invocation: its position, the tool it resolved, the index of
\* the next endpoint, the requests it sent so far (server, path, outcome),
\* and how it ended: the value returned, or the exception raised and, for
\* the "not found" ValueError, the names its message lists.
IdleCall == [pc |-> "idle", name |-> "", tool |-> Tool("", 0), ep |-> 1,
             requests |-> <<>>, result |-> <<"none", "">>, error |-> "",
             available |-> <<>>]

\* call_tool: [t.name for t in self._tools]
ToolNamesOf(ts) == [i \in 1..Len(ts) |-> ts[i].name]

\* Mutant of FindTool: an unknown name falls back to the first cached tool.
FindToolFallback(name) ==
    IF \E i \in 1..Len(tools) : tools[i].name = name
    THEN CHOOSE i \in 1..Len(tools) :
            /\ tools[i].name = name
            /\ \A j \in 1..(i - 1) : tools[j].name # name
    ELSE IF tools # <<>> THEN 1 ELSE 0

\* MCPClient._find_tool: the index of the first cached tool called `name`,
\* 0 (None) when there is none.
FindTool(name) ==
    IF \E i \in 1..Len(tools) : tools[i].name = name
    THEN CHOOSE i \in 1..Len(tools) :
            /\ tools[i].name = name
            /\ \A j \in 1..(i - 1) : tools[j].name # name
    ELSE 0

\* MCPClient.call_tool up to the first request: the lookup; an unknown name
\* raises the ValueError that lists the cached names.
CallStart(c) ==
    /\ call[c].pc \in {"idle", "returned", "raised"}
    /\ \E name \in ToolNames \cup {"missing"} :
        LET i == FindTool(name)
        IN  IF i = 0
            THEN call' = [call EXCEPT ![c] =
                    [IdleCall EXCEPT !.pc = "raised", !.name = name,
                                     !.error = "ValueError:not_found",
                                     !.available = ToolNamesOf(tools)]]
            ELSE call' = [call EXCEPT ![c] =
                    [IdleCall EXCEPT !.pc = "probing", !.name = name,
                                     !.tool = tools[i]]]
    /\ UNCHANGED <<tools, sweep, agentVars, peerVars, configVars, xcall, http, built>>

\* _execute_tool: the value extracted from a JSON body: the "result" of a
\* dict that has one, else the body itself.
ExtractResult(data) ==
    IF data.shape = "dict_result" THEN <<"value", data.val>>
    ELSE IF data.shape = "dict_plain" THEN <<"dict", data.val>>
    ELSE <<"value", data.val>>

\* Mutant of ProbeExecution: every HTTP status error moves on to the next
\* endpoint, not only 404.
ProbeExecutionAnyStatus(out) ==
    IF out.kind = "ok" THEN [step |-> "return", error |-> ""]
    ELSE IF out.kind = "badjson" THEN [step |-> "raise", error |-> "ValueError:json"]
    ELSE [step |-> "next", error |-> ""]

\* _execute_tool, one pass of its loop: what the request to one endpoint
\* comes to.
\*   "return"  the extracted result is returned
\*   "next"    the next endpoint is tried (404, RequestError)
\*   "raise"   the error leaves _execute_tool (another status; a body that
\*             is not JSON, whose ValueError no clause catches)
ProbeExecution(out) ==
    IF out.kind = "ok" THEN [step |-> "return", error |-> ""]
    ELSE IF out.kind = "badjson" THEN [step |-> "raise", error |-> "ValueError:json"]
    ELSE IF out.kind = "status"
    THEN IF out.code = 404 THEN [step |-> "next", error |-> ""]
         ELSE [step |-> "raise", error |-> "HTTPStatusError"]
    ELSE [step |-> "next", error |-> ""]

\* _execute_tool: one POST and everything up to the next one; after the
\* last endpoint the loop ends and httpx.HTTPError is raised.
\* `outcomes` is what the environment may answer.
CallProbeWith(c, outcomes) ==
    /\ call[c].pc = "probing"
    /\ \E out \in outcomes :
        LET k == call[c]
            req == [server_url |-> k.tool.server_url,
                    path |-> ExecutionEndpoints[k.ep], out |-> out]
            sent == [k EXCEPT !.requests = Append(k.requests, req)]
            r == ProbeExecution(out)
        IN  IF r.step = "return"
            THEN call' = [call EXCEPT ![c] =
                    [sent EXCEPT !.pc = "returned", !.result = ExtractResult(out.data)]]
            ELSE IF r.step = "raise"
            THEN call' = [call EXCEPT ![c] =
                    [sent EXCEPT !.pc = "raised", !.error = r.error]]
            ELSE IF k.ep < Len(ExecutionEndpoints)
            THEN call' = [call EXCEPT ![c] = [sent EXCEPT !.ep = k.ep + 1]]
            ELSE call' = [call EXCEPT ![c] =
                    [sent EXCEPT !.pc = "raised", !.error = "HTTPError"]]
    /\ UNCHANGED <<tools, sweep, agentVars, peerVars, configVars, xcall, http, built>>

CallProbe(c) == CallProbeWith(c, PostOutcomes)

\* ToolExecutionFailed is httpx.HTTPError, which HTTPStatusError subclasses.
IsToolExecutionFailed(error) == error \in {"HTTPError", "HTTPStatusError"}

----------------------------------------------------------------------------
(* agent/memory.py *)

\* No session id: the None (or "") that makes process_message and
\* create_session generate one.
NoSession == 0

\* The ids a caller can pass explicitly, and the n-th generated one
\* (f"session_{uuid.uuid4().hex[:12]}": fresh).
ExplicitIds == 1..NumSessionIds
GeneratedId(n) == 0 - n

\* LocalMemory.create_event: a MemoryEvent with a fresh event_id.
create_event(event_type, content) ==
    [event_id |-> nextEvent + 1, event_type |-> event_type, content |-> content]

\* Mutant of SessionIdFor: the id generated is the same every time.
SessionIdForFirst(session_id) ==
    IF session_id = NoSession THEN GeneratedId(1) ELSE session_id

\* LocalMemory.create_session, the id it stores the session under.
SessionIdFor(session_id) ==
    IF session_id = NoSession THEN GeneratedId(nextGen + 1) ELSE session_id

\* LocalMemory.create_session: a session with no events is stored under the
\* id, replacing whatever was stored under it.
create_session(mem, session_id) ==
    [k \in DOMAIN mem \cup {session_id} |-> IF k = session_id THEN <<>> ELSE mem[k]]

\* Mutant of add_event: a session id the memory does not know gets a
\* session.
add_event_creating(mem, session_id, event) ==
    [k \in DOMAIN mem \cup {session_id} |->
        IF k = session_id
        THEN (IF k \in DOMAIN mem THEN Append(mem[k], event) ELSE <<event>>)
        ELSE mem[k]]

\* Mutant of add_event: the event is appended to every session.
add_event_all(mem, session_id, event) ==
    IF session_id \in DOMAIN mem
    THEN [k \in DOMAIN mem |-> Append(mem[k], event)]
    ELSE mem

\* Mutant of add_event: the event is put in front of the session's events.
add_event_front(mem, session_id, event) ==
    IF session_id \in DOMAIN mem
    THEN [mem EXCEPT ![session_id] = <<event>> \o mem[session_id]]
    ELSE mem

\* LocalMemory.add_event: appends to a known session, does nothing for an
\* unknown one.
add_event(mem, session_id, event) ==
    IF session_id \in DOMAIN mem
    THEN [mem EXCEPT ![session_id] = Append(mem[session_id], event)]
    ELSE mem

\* LocalMemory.get_session_events: the events, [] for an unknown session.
get_session_events(session_id) ==
    IF session_id \in DOMAIN sessions THEN sessions[session_id] ELSE <<>>

\* The last n elements of a sequence.
LastEvents(events, n) ==
    SubSeq(events, IF Len(events) > n THEN Len(events) - n + 1 ELSE 1, Len(events))

\* build_conversation_context(session_id): process_message calls it on the
\* memory object, LocalMemory does not define it. It reads the session and
\* yields its last window_size events (10 by default) for the model call;
\* the memory is left as it is.
build_conversation_context(mem, session_id, window_size) ==
    LastEvents(IF session_id \in DOMAIN mem THEN mem[session_id] ELSE <<>>, window_size)

\* LocalMemory.delete_session
delete_session(mem, session_id) ==
    [k \in DOMAIN mem \ {session_id} |-> mem[k]]

\* History of the add_event calls: a call for a session that exists (in
\* `mem`, the memory the call finds) is noted under that session, a call
\* for a session id the memory does not know under NoSession.
NoteAdded(hist, mem, session_id, event) ==
    IF session_id \in DOMAIN mem
    THEN [hist EXCEPT ![session_id] = Append(hist[session_id], event)]
    ELSE [k \in DOMAIN hist \cup {NoSession} |->
            IF k = NoSession
            THEN (IF NoSession \in DOMAIN hist THEN Append(hist[NoSession], event)
                  ELSE <<event>>)
            ELSE hist[k]]

\* History: a session created under session_id starts with no call noted.
NoteCreated(hist, session_id) ==
    [k \in DOMAIN hist \cup {session_id} |-> IF k = session_id THEN <<>> ELSE hist[k]]

\* History: a deleted session's calls are forgotten.
NoteDeleted(hist, session_id) ==
    [k \in DOMAIN hist \ {session_id} |-> hist[k]]

----------------------------------------------------------------------------
(* agent/client.py: Agent.process_message *)

\* A process_message invocation (an async generator):
\*   pc        where it is suspended:
\*               "model"          in `await self.model.complete(messages)`
\*               "stream"         in `async for chunk in self.model.stream(..)`
\*               "yield_chunk"    at `yield chunk`
\*               "yield_content"  at `yield content`
\*               "yield_sorry"    at the yield of the apology
\*             or how it ended: "done" (exhausted), "raised" (an exception
\*             reached the consumer), "closed" (closed or cancelled by the
\*             consumer while suspended)
\*   session_id, message, stream   the arguments (session_id after line 247)
\*   response_chunks               the local of the streaming branch
\*   context                       the local of line 256
\*   yielded                       what the consumer received, in order
\*   error                         the exception that reached the consumer
\* and a record of the turn's history:
\*   user_event, response_event, error_event   the event_id of the event
\*             the turn created of that type (0: none)
\*   calls     the calls made to the model backend
\*   backend   "" (not called), "called", "ok", "failed"
\*   received  what the backend delivered: the content, or the chunks
\*   known     the session was known to the memory when the turn logged
\*             its user_message
\*   base      the session's events before the turn
\*   alone     no other operation has touched the turn's session since
\*             the turn started
IdleTurn == [pc |-> "idle", session_id |-> NoSession, message |-> <<>>,
             stream |-> FALSE, context |-> <<>>, response_chunks |-> <<>>,
             yielded |-> <<>>,
             error |-> "", user_event |-> 0, response_event |-> 0,
             error_event |-> 0, calls |-> 0, backend |-> "",
             received |-> <<>>, known |-> FALSE, base |-> <<>>, alone |-> TRUE]

Suspended == {"model", "stream", "yield_chunk", "yield_content", "yield_sorry"}
Ended == {"done", "raised", "closed"}

\* History: an operation other than turn `self` has touched session
\* session_id; the turns started on that session are no longer alone.
Touch(tn, session_id, self) ==
    [u \in Turns |->
        IF u # self /\ tn[u].pc # "idle" /\ tn[u].session_id = session_id
        THEN [tn[u] EXCEPT !.alone = FALSE]
        ELSE tn[u]]

\* "".join(response_chunks)
Join(chunks) == Flatten(chunks)

\* str(e), as tokens. The AttributeError of line 256 quotes the class and
\* the attribute with apostrophes, the HTTPStatusError of raise_for_status
\* the status and the url (the reference it ends with is left out), the
\* KeyError of response["choices"][0]["message"]["content"] the key.
ExceptionText(e) ==
    IF e = "AttributeError"
    THEN <<"'", "LocalMemory", "'", " object has no attribute ",
           "'", "build_conversation_context", "'">>
    ELSE IF e = "HTTPError"
    THEN <<"Server error ", "'", "500", "'", " for url ",
           "'", "http://model/v1/chat/completions", "'">>
    ELSE IF e = "KeyError"
    THEN <<"'", "message", "'">>
    ELSE <<e>>

\* f"Error processing message: {str(e)}"
ErrorMessage(e) == <<"Error processing message: ">> \o ExceptionText(e)

\* f"Sorry, I encountered an error: {str(e)}"
Apology(e) == <<"Sorry, I encountered an error: ">> \o ExceptionText(e)

\* The events and generated sessions a run may hold when a turn takes a
\* step: MaxEvents and MaxGenerated, and the two events and the session of
\* each request the gateway has answered before.
EventsLimit == MaxEvents + 2 * http.completed
GeneratedLimit == MaxGenerated + http.completed

\* process_message, lines 245-247: the session id the turn works with; a
\* session is created only when no id was passed.
EnsureSession(mem, session_id) ==
    IF session_id = NoSession
    THEN create_session(mem, SessionIdFor(NoSession))
    ELSE mem

\* process_message from its first resumption to its first suspension: the
\* session, the user_message event, the context, and the call of the model
\* backend. A memory without build_conversation_context (LocalMemory) makes
\* line 256 raise AttributeError, outside the try.
ProcessMessage(t, message, sid, stream) ==
    /\ turn[t].pc = "idle"
    /\ nextEvent < EventsLimit
    /\  /\ sid = NoSession => nextGen < GeneratedLimit
        /\ LET session_id == SessionIdFor(sid)
               mem == EnsureSession(sessions, sid)
               user_event == create_event("user_message", message)
               started == [IdleTurn EXCEPT
                            !.session_id = session_id, !.message = message,
                            !.stream = stream, !.user_event = user_event.event_id,
                            !.known = session_id \in DOMAIN mem,
                            !.base = IF session_id \in DOMAIN mem THEN mem[session_id] ELSE <<>>]
           IN  /\ sessions' = add_event(mem, session_id, user_event)
               /\ added' = NoteAdded(IF sid = NoSession THEN NoteCreated(added, session_id) ELSE added,
                                     mem, session_id, user_event)
               /\ nextEvent' = nextEvent + 1
               /\ nextGen' = IF sid = NoSession THEN nextGen + 1 ELSE nextGen
               /\ turn' = [Touch(turn, session_id, t) EXCEPT ![t] =
                            IF hasContext
                            THEN [started EXCEPT !.pc = IF stream THEN "stream" ELSE "model",
                                                 !.context = build_conversation_context(
                                                    add_event(mem, session_id, user_event),
                                                    session_id, 10),
                                                 !.calls = 1, !.backend = "called"]
                            ELSE [started EXCEPT !.pc = "raised", !.error = "AttributeError"]]

\* A caller starts process_message with some message, with or without a
\* session id, streaming or not.
PMStart(t) ==
    /\ \E message \in Messages, sid \in {NoSession} \cup ExplicitIds, stream \in BOOLEAN :
        ProcessMessage(t, message, sid, stream)
    /\ UNCHANGED <<hasContext, toolVars, peerVars, configVars, xcall, http, built>>

\* Mutant of HandleError: a failed call of the model backend is made again.
HandleErrorRetry(t, k, e, pc) ==
    /\ sessions' = sessions
    /\ added' = added
    /\ nextEvent' = nextEvent + 1
    /\ turn' = [turn EXCEPT ![t] =
                    [k EXCEPT !.pc = IF k.stream THEN "stream" ELSE "model",
                              !.calls = k.calls + 1]]

\* process_message, the except clause: the error event and the apology.
\* `pc` is where the step leaves the generator: at the yield of the
\* apology, or exhausted when the consumer asks for the next item without
\* suspending.
HandleError(t, k, e, pc) ==
    LET error_event == create_event("error", ErrorMessage(e))
    IN  /\ sessions' = add_event(sessions, k.session_id, error_event)
        /\ added' = NoteAdded(added, sessions, k.session_id, error_event)
        /\ nextEvent' = nextEvent + 1
        /\ turn' = [Touch(turn, k.session_id, t) EXCEPT ![t] =
                        [k EXCEPT !.pc = pc, !.backend = "failed",
                                  !.error_event = error_event.event_id,
                                  !.yielded = Append(k.yielded, Apology(e))]]

\* Mutant of LogResponse: a streamed response is logged as its last chunk.
LogResponseLastChunk(t, k, content, pc) ==
    LET logged == IF k.response_chunks = <<>> THEN content
                  ELSE k.response_chunks[Len(k.response_chunks)]
        response_event == create_event("agent_response", logged)
    IN  /\ sessions' = add_event(sessions, k.session_id, response_event)
        /\ added' = NoteAdded(added, sessions, k.session_id, response_event)
        /\ nextEvent' = nextEvent + 1
        /\ turn' = [Touch(turn, k.session_id, t) EXCEPT ![t] =
                        [k EXCEPT !.pc = pc, !.backend = "ok",
                                  !.received = IF ~k.stream
                                               THEN <<content>> ELSE k.received,
                                  !.response_event = response_event.event_id,
                                  !.yielded = IF ~k.stream
                                              THEN Append(k.yielded, content)
                                              ELSE k.yielded]]

\* process_message, after the response is complete: the agent_response
\* event and, not streaming, the yield of the content. `pc` is where the
\* step leaves the generator: at the yield, or exhausted when the stream
\* has ended or the consumer asks for the next item without suspending.
LogResponse(t, k, content, pc) ==
    LET response_event == create_event("agent_response", content)
    IN  /\ sessions' = add_event(sessions, k.session_id, response_event)
        /\ added' = NoteAdded(added, sessions, k.session_id, response_event)
        /\ nextEvent' = nextEvent + 1
        /\ turn' = [Touch(turn, k.session_id, t) EXCEPT ![t] =
                        [k EXCEPT !.pc = pc, !.backend = "ok",
                                  !.received = IF ~k.stream
                                               THEN <<content>> ELSE k.received,
                                  !.response_event = response_event.event_id,
                                  !.yielded = IF ~k.stream
                                              THEN Append(k.yielded, content)
                                              ELSE k.yielded]]

\* The non-streaming branch: model.complete returns and the content is
\* logged and yielded, or it raises (so does a response without the
\* expected fields) and the except clause runs.
PMComplete(t) ==
    /\ turn[t].pc = "model"
    /\ nextEvent < EventsLimit
    /\ \/ \E content \in Contents : LogResponse(t, turn[t], content, "yield_content")
       \/ \E e \in ModelErrors : HandleError(t, turn[t], e, "yield_sorry")
    /\ UNCHANGED <<nextGen, hasContext, toolVars, peerVars, configVars, xcall, http, built>>

\* process_message, the body of `async for chunk in self.model.stream(..)`:
\* the chunk is kept and yielded.
Chunked(k, chunk) ==
    [k EXCEPT !.pc = "yield_chunk",
              !.response_chunks = Append(@, chunk),
              !.received = Append(@, chunk),
              !.yielded = Append(@, chunk)]

\* The streaming branch: the backend delivers a chunk, which is kept and
\* yielded.
PMStreamChunkFrom(t, chunks) ==
    /\ turn[t].pc = "stream"
    /\ Len(turn[t].response_chunks) < MaxChunks
    /\ \E chunk \in chunks :
        turn' = [turn EXCEPT ![t] = Chunked(turn[t], chunk)]
    /\ UNCHANGED <<sessions, added, nextEvent, nextGen, hasContext, toolVars, peerVars, configVars, xcall, http, built>>

PMStreamChunk(t) == PMStreamChunkFrom(t, Chunks)

\* The streaming branch: the stream ends; the joined chunks are logged and
\* the generator is exhausted.
PMStreamEnd(t) ==
    /\ turn[t].pc = "stream"
    /\ nextEvent < EventsLimit
    /\ LogResponse(t, turn[t], Join(turn[t].response_chunks), "done")
    /\ UNCHANGED <<nextGen, hasContext, toolVars, peerVars, configVars, xcall, http, built>>

\* The streaming branch: the stream raises, before or after some chunks.
PMStreamFail(t) ==
    /\ turn[t].pc = "stream"
    /\ nextEvent < EventsLimit
    /\ \E e \in ModelErrors : HandleError(t, turn[t], e, "yield_sorry")
    /\ UNCHANGED <<nextGen, hasContext, toolVars, peerVars, configVars, xcall, http, built>>

\* process_message resumed at its yield: after a chunk the stream is read
\* on; after the content or the apology the generator is exhausted.
Resumed(k) == [k EXCEPT !.pc = IF @ = "yield_chunk" THEN "stream" ELSE "done"]

\* The consumer asks for the next item.
Resume(t) ==
    /\ turn[t].pc \in {"yield_chunk", "yield_content", "yield_sorry"}
    /\ turn' = [turn EXCEPT ![t] = Resumed(turn[t])]

PMResume(t) ==
    /\ Resume(t)
    /\ UNCHANGED <<sessions, added, nextEvent, nextGen, hasContext, toolVars, peerVars, configVars, xcall, http, built>>

\* The consumer stops: it closes the generator at a yield (GeneratorExit)
\* or its task is cancelled in an await (CancelledError); neither is an
\* Exception, so no clause of process_message runs.
PMClose(t) ==
    /\ turn[t].pc \in Suspended
    /\ turn' = [turn EXCEPT ![t].pc = "closed"]
    /\ UNCHANGED <<sessions, added, nextEvent, nextGen, hasContext, toolVars, peerVars, configVars, xcall, http, built>>

\* The caller is done with the turn's outcome and may start another.
PMReturn(t) ==
    /\ turn[t].pc \in Ended
    /\ turn' = [turn EXCEPT ![t] = IdleTurn]
    /\ UNCHANGED <<sessions, added, nextEvent, nextGen, hasContext, toolVars, peerVars, configVars, xcall, http, built>>

----------------------------------------------------------------------------
(* Direct calls of LocalMemory *)

EventTypes == {"user_message", "agent_response", "tool_call"}

\* memory.create_session(app_name, user_id, session_id)
CreateSession ==
    /\ \E sid \in {NoSession} \cup ExplicitIds :
        /\ sid = NoSession => nextGen < MaxGenerated
        /\ sessions' = create_session(sessions, SessionIdFor(sid))
        /\ added' = NoteCreated(added, SessionIdFor(sid))
        /\ nextGen' = IF sid = NoSession THEN nextGen + 1 ELSE nextGen
        /\ turn' = Touch(turn, SessionIdFor(sid), "")
    /\ UNCHANGED <<nextEvent, hasContext, toolVars, peerVars, configVars, xcall, http, built>>

\* memory.add_event(session_id, memory.create_event(event_type, content)),
\* for an event of one of the given types.
AddEvent(types) ==
    /\ nextEvent < MaxEvents
    /\ \E sid \in ExplicitIds \cup DOMAIN sessions, event_type \in types, content \in Messages :
        /\ sessions' = add_event(sessions, sid, create_event(event_type, content))
        /\ added' = NoteAdded(added, sessions, sid, create_event(event_type, content))
        /\ turn' = Touch(turn, sid, "")
    /\ nextEvent' = nextEvent + 1
    /\ UNCHANGED <<nextGen, hasContext, toolVars, peerVars, configVars, xcall, http, built>>

\* self.memory.build_conversation_context(session_id), the expression of
\* process_message's line 256, on the repository's LocalMemory: the class
\* defines no such attribute, so the expression raises AttributeError and
\* no context is built; the memory is left alone.
BuildContext ==
    /\ ~hasContext
    /\ \E sid \in ExplicitIds \cup DOMAIN sessions :
        built' = <<[session_id |-> sid, error |-> "AttributeError", context |-> <<>>]>>
    /\ UNCHANGED <<toolVars, agentVars, peerVars, configVars, xcall, http>>

\* memory.delete_session(session_id)
DeleteSession ==
    /\ \E sid \in DOMAIN sessions :
        /\ sessions' = delete_session(sessions, sid)
        /\ added' = NoteDeleted(added, sid)
        /\ turn' = Touch(turn, sid, "")
    /\ UNCHANGED <<nextEvent, nextGen, hasContext, toolVars, peerVars, configVars, xcall, http, built>>

----------------------------------------------------------------------------
(* agent/client.py: RemoteAgent, Agent.delegate_to_sub_agent;               *)
(* agent/server.py: the peer's /agent/invoke handler                        *)

\* RemoteAgent.card_url: the address the card is fetched from.
card_url == "http://peer-discovery"

\* The sub-agents the coordinator is configured with (their names).
sub_agents == <<"worker">>

\* The names a caller can ask to delegate to.
AgentNames == {"worker", "nobody"}

\* The tasks a caller can pass.
Tasks == {<<"task">>}

\* Optional[AgentCard]: no card cached.
NoCard == <<>>

\* The JSON of a discovery document, as far as the client reads it: its
\* "url" (<<>>: the document has none).
CardData == {[url |-> <<"http://peer-a">>], [url |-> <<"http://peer-b">>], [url |-> <<>>]}

\* discover: the AgentCard built from the document; url defaults to
\* card_url.
AgentCardFrom(card_data) ==
    [url |-> IF card_data.url = <<>> THEN card_url ELSE card_data.url[1]]

\* What the GET of the discovery document can come to.
CardOutcomes == [kind : {"ok"}, code : {200}, data : CardData]
                \cup {[kind |-> o.kind, code |-> o.code, data |-> [url |-> <<>>]] :
                        o \in FailedOutcomes}

\* The exception a failed request raises in discover and invoke; both
\* re-raise whatever they catch.
RequestError(out) ==
    IF out.kind = "status" THEN "HTTPStatusError"
    ELSE IF out.kind = "neterr" THEN "RequestError"
    ELSE "ValueError:json"

\* What the peer's model backend does with the task.
Backends == [kind : {"ok"}, content : Contents, error : {""}]
            \cup [kind : {"failed"}, content : {<<>>}, error : ModelErrors]

\* Mutant of invoke_agent: the task is processed without being logged.
invoke_agent_unlogged(mem, task) ==
    LET session_id == GeneratedId(nextGen + 1)
    IN  [mem |-> create_session(mem, session_id), session_id |-> session_id]

\* The peer's handler of POST /agent/invoke, on the peer's memory `mem`, up
\* to the first suspension of process_message(task), called with no session
\* id and no streaming: the session is created and the user_message
\* logged.
invoke_agent(mem, task) ==
    LET session_id == GeneratedId(nextGen + 1)
        user_event == create_event("user_message", task)
    IN  [mem |-> add_event(create_session(mem, session_id), session_id, user_event),
         session_id |-> session_id]

\* The peer's handler from the return of its model backend on: the closing
\* event (agent_response or error) is logged and the chunks of
\* process_message are joined into the response.
invoke_agent_resumed(mem, session_id, backend) ==
    LET closing == create_event(IF backend.kind = "ok" THEN "agent_response" ELSE "error",
                                IF backend.kind = "ok" THEN backend.content
                                ELSE ErrorMessage(backend.error))
    IN  [mem |-> add_event(mem, session_id, closing),
         response |-> IF backend.kind = "ok" THEN backend.content
                      ELSE Apology(backend.error)]

\* The gateway's POST /agent/delegate, the status it answers with: 404 for
\* a name that is no configured peer, 200 for a delegation that returned,
\* 500 for one that failed.
DelegateStatus(pc, error) ==
    IF pc = "returned" THEN 200
    ELSE IF error = "ValueError:sub_agent_not_found" THEN 404
    ELSE 500

\* A discover, invoke or delegate invocation:
\*   pc        "idle"; "get": in `await self.client.get(..)` of discover;
\*             "post": in `await self.client.post(..)` of invoke;
\*             "returned", "raised"
\*   op        "discover", "invoke" or "delegate"
\*   agent_name, task   the arguments
\*   requests  the requests it sent, in order
\*   result    what it returned: the response text, or for discover the card
\*   error     the exception it raised
\*   status    for a delegate: the status of POST /agent/delegate
\* and a record of its history:
\*   had_card  a card was cached when it was called
\*   fetched   the card its own GET brought
\*   outs      the outcomes of its requests, in order
\*   peer_session   the session the peer's handler created for its task
\*             (0: the POST has not reached the handler)
IdleRCall == [pc |-> "idle", op |-> "", agent_name |-> "", task |-> <<>>,
              requests |-> <<>>, result |-> <<>>, error |-> "", status |-> 0,
              had_card |-> FALSE, fetched |-> NoCard, outs |-> <<>>,
              peer_session |-> NoSession, warned |-> ""]

RCalls == {"r1", "r2"}

GetCard == [method |-> "GET", url |-> card_url, path |-> "/.well-known/agent"]

\* Mutant of PostTask: the task is posted to the discovery address.
PostTaskToDiscovery(card) == [method |-> "POST", url |-> card_url, path |-> "/agent/invoke"]

\* invoke: the POST of the task, to the url of the card.
PostTask(card) == [method |-> "POST", url |-> card.url, path |-> "/agent/invoke"]

\* RemoteAgent.discover, called by a user of the client: the GET is sent.
RemoteDiscover(c) ==
    /\ rcall[c].pc = "idle"
    /\ rcall' = [rcall EXCEPT ![c] =
                    [IdleRCall EXCEPT !.pc = "get", !.op = "discover",
                                      !.had_card = agent_card # NoCard,
                                      !.requests = <<GetCard>>]]
    /\ UNCHANGED <<agent_card, peerSessions, handlers, toolVars, agentVars, configVars, xcall, http, built>>

\* Agent.add_sub_agent(worker) up to its await: the RemoteAgent is appended
\* to self.sub_agents and its discover() has sent the GET.
AddSubAgentCall(c) ==
    /\ rcall[c].pc = "idle"
    /\ Len(remote_agents) < MaxConfigured
    /\ remote_agents' = Append(remote_agents, sub_agents[1])
    /\ additions' = Append(additions, "sub_agent")
    /\ rcall' = [rcall EXCEPT ![c] =
                    [IdleRCall EXCEPT !.pc = "get", !.op = "add_sub_agent",
                                      !.agent_name = sub_agents[1],
                                      !.had_card = agent_card # NoCard,
                                      !.requests = <<GetCard>>]]
    /\ UNCHANGED <<agent_card, peerSessions, handlers, tool_clients, last_card, toolVars, agentVars,
                   xcall, http, built>>

\* RemoteAgent.invoke up to its first request: the GET of discover when no
\* card is cached, else the POST to the cached card's url.
invoke(started) ==
    IF agent_card = NoCard
    THEN [started EXCEPT !.pc = "get", !.requests = <<GetCard>>]
    ELSE [started EXCEPT !.pc = "post", !.requests = <<PostTask(agent_card[1])>>]

\* RemoteAgent.invoke(task), called on the client directly.
RemoteInvoke(c) ==
    /\ rcall[c].pc = "idle"
    /\ \E task \in Tasks :
        rcall' = [rcall EXCEPT ![c] =
                    invoke([IdleRCall EXCEPT !.op = "invoke", !.task = task,
                                             !.had_card = agent_card # NoCard])]
    /\ UNCHANGED <<agent_card, peerSessions, handlers, toolVars, agentVars, configVars, xcall, http, built>>

\* Mutant of Delegate: a name that matches no sub-agent is given to the
\* first one.
DelegateToFirst(c) ==
    /\ rcall[c].pc = "idle"
    /\ \E agent_name \in AgentNames, task \in Tasks :
        LET started == [IdleRCall EXCEPT !.op = "delegate", !.agent_name = agent_name,
                                         !.task = task,
                                         !.had_card = agent_card # NoCard]
        IN  IF remote_agents # <<>>
            THEN rcall' = [rcall EXCEPT ![c] = invoke(started)]
            ELSE rcall' = [rcall EXCEPT ![c] =
                    [started EXCEPT !.pc = "raised",
                                    !.error = "ValueError:sub_agent_not_found",
                                    !.status = DelegateStatus("raised", "ValueError:sub_agent_not_found")]]
    /\ UNCHANGED <<agent_card, peerSessions, handlers, toolVars, agentVars, configVars, xcall, http, built>>

\* Agent.delegate_to_sub_agent(agent_name, task): the sub-agent of that
\* name is invoked; ValueError when there is none. No event is recorded.
Delegate(c) ==
    /\ rcall[c].pc = "idle"
    /\ \E agent_name \in AgentNames, task \in Tasks :
        LET started == [IdleRCall EXCEPT !.op = "delegate", !.agent_name = agent_name,
                                         !.task = task,
                                         !.had_card = agent_card # NoCard]
        IN  IF \E i \in 1..Len(remote_agents) : remote_agents[i] = agent_name
            THEN rcall' = [rcall EXCEPT ![c] = invoke(started)]
            ELSE rcall' = [rcall EXCEPT ![c] =
                    [started EXCEPT !.pc = "raised",
                                    !.error = "ValueError:sub_agent_not_found",
                                    !.status = DelegateStatus("raised", "ValueError:sub_agent_not_found")]]
    /\ UNCHANGED <<agent_card, peerSessions, handlers, toolVars, agentVars, configVars, xcall, http, built>>

\* Mutant of AddSubAgentFailed: the error of the discovery leaves
\* add_sub_agent.
AddSubAgentFailedRaising(k, e) == [k EXCEPT !.pc = "raised", !.error = e]

\* add_sub_agent, lines 226-227: the error of the discovery is logged and
\* add_sub_agent returns.
AddSubAgentFailed(k, e) == [k EXCEPT !.pc = "returned", !.warned = e]

\* Mutant of DiscoverDone: a failed discovery clears the cached card.
DiscoverDoneClearing(c) ==
    /\ rcall[c].pc = "get"
    /\ \E out \in CardOutcomes :
        LET k == [rcall[c] EXCEPT !.outs = Append(@, out.kind)]
            card == AgentCardFrom(out.data)
        IN  IF out.kind = "ok"
            THEN /\ agent_card' = <<card>>
                 /\ rcall' = [rcall EXCEPT ![c] =
                        IF k.op = "discover"
                        THEN [k EXCEPT !.pc = "returned", !.result = <<card>>,
                                       !.fetched = <<card>>]
                        ELSE IF k.op = "add_sub_agent"
                        THEN [k EXCEPT !.pc = "returned", !.fetched = <<card>>]
                        ELSE [k EXCEPT !.pc = "post", !.fetched = <<card>>,
                                       !.requests = Append(@, PostTask(card))]]
            ELSE /\ agent_card' = NoCard
                 /\ rcall' = [rcall EXCEPT ![c] =
                        IF k.op = "add_sub_agent"
                        THEN AddSubAgentFailed(k, RequestError(out))
                        ELSE [k EXCEPT !.pc = "raised", !.error = RequestError(out),
                                       !.status = IF k.op = "delegate"
                                                  THEN DelegateStatus("raised", RequestError(out))
                                                  ELSE 0]]
    /\ UNCHANGED <<peerSessions, handlers, toolVars, agentVars, configVars, xcall, http, built>>

\* discover, after its GET: the card is cached and returned, or the error
\* is re-raised. Inside invoke the POST to the new card's url follows at
\* once.
DiscoverDone(c) ==
    /\ rcall[c].pc = "get"
    /\ \E out \in CardOutcomes :
        LET k == [rcall[c] EXCEPT !.outs = Append(@, out.kind)]
            card == AgentCardFrom(out.data)
        IN  IF out.kind = "ok"
            THEN /\ agent_card' = <<card>>
                 /\ rcall' = [rcall EXCEPT ![c] =
                        IF k.op = "discover"
                        THEN [k EXCEPT !.pc = "returned", !.result = <<card>>,
                                       !.fetched = <<card>>]
                        ELSE IF k.op = "add_sub_agent"
                        THEN [k EXCEPT !.pc = "returned", !.fetched = <<card>>]
                        ELSE [k EXCEPT !.pc = "post", !.fetched = <<card>>,
                                       !.requests = Append(@, PostTask(card))]]
            ELSE /\ agent_card' = agent_card
                 /\ rcall' = [rcall EXCEPT ![c] =
                        IF k.op = "add_sub_agent"
                        THEN AddSubAgentFailed(k, RequestError(out))
                        ELSE [k EXCEPT !.pc = "raised", !.error = RequestError(out),
                                       !.status = IF k.op = "delegate"
                                                  THEN DelegateStatus("raised", RequestError(out))
                                                  ELSE 0]]
    /\ UNCHANGED <<peerSessions, handlers, toolVars, agentVars, configVars, xcall, http, built>>

\* The POST of a task reaches the peer's handler, the caller staying
\* suspended in its await: process_message(task) creates a session and
\* logs the user_message. With a memory that builds the context the handler
\* is then suspended in the call of its model backend; with LocalMemory
\* line 256 raises and the handler has answered 500. The handler is kept
\* under the session it created: where it is ("model", "answered"), the
\* status and the text it answered with.
InvokeReceived(c) ==
    /\ rcall[c].pc = "post"
    /\ rcall[c].peer_session = NoSession
    /\ nextGen < MaxHandled
    /\ LET k == rcall[c]
           started == invoke_agent(peerSessions, k.task)
           handler == IF hasContext
                      THEN [pc |-> "model", status |-> 0, response |-> <<>>]
                      ELSE [pc |-> "answered", status |-> 500, response |-> <<>>]
       IN  /\ peerSessions' = started.mem
           /\ nextEvent' = nextEvent + 1
           /\ nextGen' = nextGen + 1
           /\ handlers' = [sid \in DOMAIN handlers \cup {started.session_id} |->
                            IF sid = started.session_id THEN handler ELSE handlers[sid]]
           /\ rcall' = [rcall EXCEPT ![c] =
                            [k EXCEPT !.outs = Append(@, "handled"),
                                      !.peer_session = started.session_id]]
    /\ UNCHANGED <<agent_card, sessions, hasContext, turn, added, toolVars, configVars, xcall, http, built>>

\* The model backend of a handler returns or fails: the handler logs the
\* closing event and answers 200 with the text or the apology, whether or
\* not its caller is still waiting.
InvokeAnswered ==
    /\ \E sid \in DOMAIN handlers, backend \in Backends :
        LET served == invoke_agent_resumed(peerSessions, sid, backend)
        IN  /\ handlers[sid].pc = "model"
            /\ peerSessions' = served.mem
            /\ handlers' = [handlers EXCEPT ![sid] =
                                [pc |-> "answered", status |-> 200,
                                 response |-> served.response]]
    /\ nextEvent' = nextEvent + 1
    /\ UNCHANGED <<agent_card, rcall, sessions, nextGen, hasContext, turn, added, toolVars, configVars, xcall, http, built>>

\* invoke, the POST raises in the caller: a status or a body that is not
\* JSON from an address that is not the peer's handler, or a transport
\* error (refused connection; ReadTimeout, which also happens while the
\* handler works or after it answered). The error is re-raised.
InvokeFailed(c) ==
    /\ rcall[c].pc = "post"
    /\ \E out \in FailedOutcomes :
        /\ out.kind # "neterr" => rcall[c].peer_session = NoSession
        /\ rcall' = [rcall EXCEPT ![c] =
                        [@ EXCEPT !.outs = Append(@, out.kind),
                                  !.pc = "raised", !.error = RequestError(out),
                                  !.status = IF rcall[c].op = "delegate"
                                             THEN DelegateStatus("raised", RequestError(out))
                                             ELSE 0]]
    /\ UNCHANGED <<agent_card, peerSessions, handlers, toolVars, agentVars, configVars, xcall, http, built>>

\* invoke, the answer of the peer's handler arrives: the response text is
\* returned, or raise_for_status raises for the 500.
InvokeDone(c) ==
    /\ rcall[c].pc = "post"
    /\ rcall[c].peer_session \in DOMAIN handlers
    /\ LET k == rcall[c]
           handler == handlers[k.peer_session]
       IN  /\ handler.pc = "answered"
           /\ rcall' = [rcall EXCEPT ![c] =
                IF handler.status = 200
                THEN [k EXCEPT !.pc = "returned", !.result = handler.response,
                               !.status = IF k.op = "delegate"
                                          THEN DelegateStatus("returned", "")
                                          ELSE 0]
                ELSE [k EXCEPT !.pc = "raised", !.error = "HTTPStatusError",
                               !.status = IF k.op = "delegate"
                                          THEN DelegateStatus("raised", "HTTPStatusError")
                                          ELSE 0]]
    /\ UNCHANGED <<agent_card, peerSessions, handlers, toolVars, agentVars, configVars, xcall, http, built>>

\* The caller is done with the outcome and may call again.
RemoteReturn(c) ==
    /\ rcall[c].pc \in {"returned", "raised"}
    /\ rcall' = [rcall EXCEPT ![c] = IdleRCall]
    /\ UNCHANGED <<agent_card, peerSessions, handlers, toolVars, agentVars, configVars, xcall, http, built>>

----------------------------------------------------------------------------
(* Direct calls of the LocalMemory of a second agent *)

\* memory.create_session(app_name, user_id, session_id) on the second
\* agent's memory, with an explicit id.
PeerCreateSession ==
    /\ \E sid \in ExplicitIds :
        peerSessions' = create_session(peerSessions, sid)
    /\ UNCHANGED <<agent_card, rcall, handlers, toolVars, agentVars, configVars, xcall, http, built>>

\* memory.add_event(session_id, memory.create_event(event_type, content))
\* on the second agent's memory.
PeerAddEvent ==
    /\ nextEvent < MaxEvents
    /\ \E sid \in ExplicitIds, content \in Messages :
        peerSessions' = add_event(peerSessions, sid, create_event("user_message", content))
    /\ nextEvent' = nextEvent + 1
    /\ UNCHANGED <<agent_card, rcall, handlers, sessions, nextGen, hasContext, turn, added, toolVars, configVars, xcall, http, built>>

----------------------------------------------------------------------------
(* agent/client.py: Agent.add_tools, add_sub_agent, get_agent_card *)

\* The caches discover_tools can leave in an MCPClient the agent holds.
ClientCaches == {<<>>, <<Tool("x", 1)>>, <<Tool("y", 1)>>, <<Tool("x", 1), Tool("y", 2)>>}

\* The base_url the gateway passes: f"http://localhost:{self.port}"
base_url == "http://localhost:8000"

\* An MCPClient in Agent.tools: its cache, whether the discover_tools call
\* of add_tools is still under way, and whether that call raised.
NewClient == [cache |-> <<>>, discovering |-> TRUE, failed |-> FALSE]

\* add_tools up to its await: the client is appended to self.tools. The
\* MCPClient passed is a new one or one that has cached tools before.
AddTools ==
    /\ Len(tool_clients) < MaxConfigured
    /\ \E cache \in ClientCaches :
        tool_clients' = Append(tool_clients, [NewClient EXCEPT !.cache = cache])
    /\ additions' = Append(additions, "tools")
    /\ UNCHANGED <<remote_agents, last_card, toolVars, agentVars, peerVars, xcall, http, built>>

\* What the discover_tools call of add_tools comes to: the list it cached
\* and returned, or the httpx.HTTPError it raised.
SweepOutcomes == [kind : {"returned"}, cache : ClientCaches]
                 \cup [kind : {"raised"}, cache : {<<>>}]

\* add_tools, lines 210-214: the sweep returned and has replaced the
\* client's cache, or it raised, which is logged; the cache is then what
\* it was.
ToolsSwept(client, out) ==
    IF out.kind = "returned"
    THEN [client EXCEPT !.cache = out.cache, !.discovering = FALSE]
    ELSE [client EXCEPT !.discovering = FALSE, !.failed = TRUE]

\* add_tools after its await.
ToolsDiscovered ==
    /\ \E i \in 1..Len(tool_clients), out \in SweepOutcomes :
        /\ tool_clients[i].discovering
        /\ tool_clients' = [tool_clients EXCEPT ![i] = ToolsSwept(tool_clients[i], out)]
    /\ UNCHANGED <<remote_agents, additions, last_card, toolVars, agentVars, peerVars, xcall, http, built>>

\* get_agent_card, the skills: one per cached tool of every client, in
\* order.
Skills(clients) ==
    Flatten([i \in 1..Len(clients) |->
                [j \in 1..Len(clients[i].cache) |-> [name |-> clients[i].cache[j].name]]])

\* Mutant of Capabilities: message_processing is left out.
CapabilitiesTaskOnly(clients, subs) ==
    <<"task_execution">>
        \o (IF clients # <<>> THEN <<"tool_execution">> ELSE <<>>)
        \o (IF subs # <<>> THEN <<"task_delegation">> ELSE <<>>)

\* Mutant of Capabilities: tool_execution is decided by the skills, not by
\* the clients.
CapabilitiesBySkills(clients, subs) ==
    <<"message_processing", "task_execution">>
        \o (IF Skills(clients) # <<>> THEN <<"tool_execution">> ELSE <<>>)
        \o (IF subs # <<>> THEN <<"task_delegation">> ELSE <<>>)

\* Mutant of Capabilities: tool_execution is always listed.
CapabilitiesAlwaysTools(clients, subs) ==
    <<"message_processing", "task_execution", "tool_execution">>
        \o (IF subs # <<>> THEN <<"task_delegation">> ELSE <<>>)

\* get_agent_card, lines 359-363: the capabilities list.
Capabilities(clients, subs) ==
    <<"message_processing", "task_execution">>
        \o (IF clients # <<>> THEN <<"tool_execution">> ELSE <<>>)
        \o (IF subs # <<>> THEN <<"task_delegation">> ELSE <<>>)

\* Agent.get_agent_card(base_url)
get_agent_card(clients, subs, url) ==
    [name |-> "agent", url |-> url, skills |-> Skills(clients),
     capabilities |-> Capabilities(clients, subs)]

\* A call of get_agent_card (the gateway's GET /.well-known/agent): the
\* card, kept with the configuration it was made from.
GetAgentCard ==
    /\ last_card' = <<[card |-> get_agent_card(tool_clients, remote_agents, base_url),
                  tools |-> tool_clients, sub_agents |-> remote_agents,
                  additions |-> additions]>>
    /\ UNCHANGED <<tool_clients, remote_agents, additions, toolVars, agentVars, peerVars,
                   xcall, http, built>>

----------------------------------------------------------------------------
(* agent/client.py: Agent.execute_tool *)

\* MCPClient._find_tool on the cache of one of the agent's clients: the
\* index of the first cached tool called `name`, 0 (None) when there is
\* none.
FindToolIn(cache, name) ==
    IF \E i \in 1..Len(cache) : cache[i].name = name
    THEN CHOOSE i \in 1..Len(cache) :
            /\ cache[i].name = name
            /\ \A j \in 1..(i - 1) : cache[j].name # name
    ELSE 0

\* execute_tool, the loop over self.tools from position `from` on: a client
\* whose call_tool raises the "not found" ValueError is passed over without
\* a request; the index of the first client that has the tool, 0 when the
\* loop runs out.
NextClientWith(clients, from, name) ==
    IF \E i \in from..Len(clients) : FindToolIn(clients[i].cache, name) # 0
    THEN CHOOSE i \in from..Len(clients) :
            /\ FindToolIn(clients[i].cache, name) # 0
            /\ \A j \in from..(i - 1) : FindToolIn(clients[j].cache, name) = 0
    ELSE 0

\* An execute_tool invocation: its position, the client whose call_tool it
\* is in and the tool that client resolved, the index of the next
\* endpoint, the requests sent so far (client, server, path, what the
\* request came to), and how it ended.
IdleXCall == [pc |-> "idle", name |-> "", client |-> 0, tool |-> Tool("", 0), ep |-> 1,
              requests |-> <<>>, result |-> <<"none", "">>, error |-> ""]

\* execute_tool from position `from` of the loop to the next request: the
\* call_tool of the first client that has the tool, or, the loop over, the
\* ValueError "not found in any tool client".
ExecuteFrom(k, from) ==
    LET i == NextClientWith(tool_clients, from, k.name)
    IN  IF i = 0
        THEN [k EXCEPT !.pc = "raised", !.error = "ValueError:not_found_in_any"]
        ELSE [k EXCEPT !.pc = "probing", !.client = i, !.ep = 1,
                       !.tool = tool_clients[i].cache[FindToolIn(tool_clients[i].cache, k.name)]]

\* execute_tool(tool_name, args) up to its first request.
ExecStart ==
    /\ xcall.pc \in {"idle", "returned", "raised"}
    /\ \E name \in ToolNames \cup {"missing"} :
        xcall' = ExecuteFrom([IdleXCall EXCEPT !.name = name], 1)
    /\ UNCHANGED <<toolVars, agentVars, peerVars, configVars, http, built>>

\* execute_tool: one POST of the client's _execute_tool and everything up
\* to the next one. A result is returned; an httpx error leaves
\* execute_tool; a ValueError out of call_tool (a body that is not JSON) is
\* caught by `except ValueError: continue` and the loop goes on with the
\* next client.
ExecProbe ==
    /\ xcall.pc = "probing"
    /\ \E out \in PostOutcomes :
        LET k == xcall
            req == [client |-> k.client, server_url |-> k.tool.server_url,
                    path |-> ExecutionEndpoints[k.ep], kind |-> out.kind, code |-> out.code]
            sent == [k EXCEPT !.requests = Append(k.requests, req)]
            r == ProbeExecution(out)
        IN  IF r.step = "return"
            THEN xcall' = [sent EXCEPT !.pc = "returned", !.result = ExtractResult(out.data)]
            ELSE IF r.step = "raise"
            THEN IF r.error = "ValueError:json"
                 THEN xcall' = ExecuteFrom(sent, k.client + 1)
                 ELSE xcall' = [sent EXCEPT !.pc = "raised", !.error = r.error]
            ELSE IF k.ep < Len(ExecutionEndpoints)
            THEN xcall' = [sent EXCEPT !.ep = k.ep + 1]
            ELSE xcall' = [sent EXCEPT !.pc = "raised", !.error = "HTTPError"]
    /\ UNCHANGED <<toolVars, agentVars, peerVars, configVars, http, built>>

----------------------------------------------------------------------------
(* agent/server.py: AgentServer, POST /agent/invoke and                     *)
(* POST /v1/chat/completions                                                 *)

\* The process_message invocation of the request being handled.
ServerTurn == "t1"

UserMessage == [role |-> "user", content |-> <<"hi">>]
SystemMessage == [role |-> "system", content |-> <<"be brief">>]
EmptyUserMessage == [role |-> "user", content |-> <<>>]

\* The bodies of a chat-completions request: something that is not JSON, or
\* an object with or without "messages" and with or without "stream".
ChatBodies ==
    [json : {FALSE}, has_messages : {FALSE}, messages : {<<>>}, stream : {FALSE}]
    \cup [json : {TRUE}, has_messages : {FALSE}, messages : {<<>>}, stream : BOOLEAN]
    \cup [json : {TRUE}, has_messages : {TRUE},
          messages : {<<>>, <<UserMessage>>, <<SystemMessage>>, <<EmptyUserMessage>>,
                      <<SystemMessage, UserMessage>>},
          stream : BOOLEAN]

\* body.get("messages", [])
MessagesOf(body) == IF body.has_messages THEN body.messages ELSE <<>>

\* chat_completions, lines 151-154: the content of the last message whose
\* role is "user", "" when there is none.
UserContent(messages) ==
    LET users == {i \in 1..Len(messages) : messages[i].role = "user"}
    IN  IF users = {} THEN <<>>
        ELSE messages[CHOOSE i \in users : \A j \in users : j <= i].content

\* Mutant of ChatStatus: a request is passed on whatever its messages are.
ChatStatusUnchecked(body) ==
    IF ~body.json THEN 500 ELSE 0

\* chat_completions up to the call of the agent: the status the request is
\* refused with (500 for a body that is not JSON, 400 for no messages or no
\* user message), 0 when it is passed on.
ChatStatus(body) ==
    IF ~body.json THEN 500
    ELSE IF MessagesOf(body) = <<>> THEN 400
    ELSE IF UserContent(MessagesOf(body)) = <<>> THEN 400
    ELSE 0

\* The request being handled:
\*   pc       "idle"; "accepted": the handler has returned the
\*            StreamingResponse and its body has not been pulled yet;
\*            "running": process_message is being consumed; "closing":
\*            generate_stream is suspended at the yield of its final or
\*            error frame; "responded": the response is complete;
\*            "disconnected": the client left before the body was complete
\*   route, body, stream   the request
\*   invoked  process_message was called for it
\*   response_text         the chunks joined so far (non-streaming)
\*   status, response      the HTTP status and, for a JSON response, what
\*            it carries
\*   frames   the SSE frames of a streaming response, in order
\*   completed              the requests over so far for which
\*            process_message was called
\*   abandoned              the process_message generators of earlier
\*            requests whose client disconnected while they were suspended
\*            at a yield, as they were left or, once finalized, closed
IdleHttp == [pc |-> "idle", route |-> "", body |-> <<>>, stream |-> FALSE,
             invoked |-> FALSE, response_text |-> <<>>, status |-> 0,
             response |-> <<>>, frames |-> <<>>, completed |-> 0,
             abandoned |-> <<>>]

\* str() of a dict holding the text: what repr puts between the delimiters
\* of the string. A text with an apostrophe and a double quote is delimited
\* by apostrophes and has its own apostrophes escaped by a backslash; any
\* other text stands as it is (texts with backslashes or control
\* characters are not among the tokens).
Repr(text) ==
    LET both == /\ \E i \in 1..Len(text) : text[i] = "'"
                /\ \E i \in 1..Len(text) : text[i] = "\""
    IN  Flatten([i \in 1..Len(text) |->
                    IF text[i] = "'" /\ both THEN <<"\\", "'">> ELSE <<text[i]>>])

\* str(sse_data).replace('None', 'null').replace(chr(39), chr(34)), what it
\* makes of the text inside.
SseFormat(text) ==
    LET r == Repr(text)
    IN  [i \in 1..Len(r) |->
            IF r[i] = "None" THEN "null" ELSE IF r[i] = "'" THEN "\"" ELSE r[i]]

ChunkFrame(chunk) ==
    [object |-> "chat.completion.chunk", content |-> SseFormat(chunk),
     finish_reason |-> "null"]
FinalFrame == [object |-> "chat.completion.chunk", content |-> <<>>, finish_reason |-> "stop"]

\* The error frame: str(error_data).replace(chr(39), chr(34)) turns every
\* apostrophe of the message into a double quote.
ErrorFrame(e) ==
    LET text == Repr(ExceptionText(e))
    IN  [object |-> "error",
         content |-> [i \in 1..Len(text) |-> IF text[i] = "'" THEN "\"" ELSE text[i]],
         finish_reason |-> ""]
DoneFrame == [object |-> "[DONE]", content |-> <<>>, finish_reason |-> ""]

\* Mutant of Consumed: every chunk gets a frame, an empty one too.
ConsumedEveryChunk(h, chunk) ==
    IF h.stream
    THEN [h EXCEPT !.frames = Append(h.frames, ChunkFrame(chunk))]
    ELSE [h EXCEPT !.response_text = h.response_text \o chunk]

\* The body of the `async for chunk in process_message(..)` loops: a
\* streaming response sends a frame for a chunk that is not empty, the
\* others add the chunk to the text.
Consumed(h, chunk) ==
    IF h.stream
    THEN (IF chunk # <<>> THEN [h EXCEPT !.frames = Append(h.frames, ChunkFrame(chunk))] ELSE h)
    ELSE [h EXCEPT !.response_text = h.response_text \o chunk]

\* Mutant of Responded: an invocation whose backend call failed is answered
\* with 500.
RespondedFailingOnApology(h, k) ==
    IF h.stream
    THEN [h EXCEPT !.pc = "closing",
                   !.frames = Append(h.frames, IF k.pc = "done" THEN FinalFrame
                                               ELSE ErrorFrame(k.error))]
    ELSE IF k.pc = "done" /\ k.backend # "failed"
    THEN [h EXCEPT !.pc = "responded", !.status = 200,
                   !.response = <<h.response_text,
                                   IF h.route = "/agent/invoke" THEN "completed" ELSE "stop">>]
    ELSE [h EXCEPT !.pc = "responded", !.status = 500]

\* The end of the handler, process_message being exhausted or having
\* raised. Streaming (generate_stream): the final frame or the error frame
\* is yielded, [DONE] being left to the next pull. Otherwise the JSON
\* response with the text
\* (status "completed" for /agent/invoke, finish_reason "stop" for a chat
\* completion), or HTTP 500.
Responded(h, k) ==
    IF h.stream
    THEN [h EXCEPT !.pc = "closing",
                   !.frames = Append(h.frames, IF k.pc = "done" THEN FinalFrame
                                               ELSE ErrorFrame(k.error))]
    ELSE IF k.pc = "done"
    THEN [h EXCEPT !.pc = "responded", !.status = 200,
                   !.response = <<h.response_text,
                                   IF h.route = "/agent/invoke" THEN "completed" ELSE "stop">>]
    ELSE [h EXCEPT !.pc = "responded", !.status = 500]

\* The handler after it has called process_message: with LocalMemory the
\* call raised at once, which ends the handler in the same step; else the
\* handler waits with process_message for the model backend.
Started(h, k) ==
    IF k.pc = "raised" THEN Responded(h, k) ELSE h

\* POST /agent/invoke {task}: process_message(task) is called.
HttpInvoke ==
    /\ http.pc = "idle"
    /\ http.completed < MaxRequests
    /\ \E task \in Messages :
        /\ ProcessMessage(ServerTurn, task, NoSession, FALSE)
        /\ http' = Started([IdleHttp EXCEPT !.completed = http.completed,
                                            !.abandoned = http.abandoned, !.pc = "running",
                                            !.route = "/agent/invoke", !.invoked = TRUE],
                           turn'[ServerTurn])
    /\ UNCHANGED <<hasContext, toolVars, peerVars, configVars, xcall, built>>

\* POST /v1/chat/completions, a request that is refused.
HttpChatRefused ==
    /\ http.pc = "idle"
    /\ http.completed < MaxRequests
    /\ \E body \in ChatBodies :
        /\ ChatStatus(body) # 0
        /\ http' = [IdleHttp EXCEPT !.completed = http.completed, !.abandoned = http.abandoned,
                                    !.pc = "responded", !.route = "/v1/chat/completions",
                                    !.body = <<body>>, !.stream = body.stream,
                                    !.status = ChatStatus(body)]
    /\ UNCHANGED <<toolVars, agentVars, peerVars, configVars, xcall, built>>

\* POST /v1/chat/completions, a request that is passed on. Not streaming:
\* _complete_chat_completion calls process_message(user_content). Streaming:
\* _stream_chat_completion returns the StreamingResponse (status 200) around
\* generate_stream(), which has not run yet: no session, no event.
HttpChat ==
    /\ http.pc = "idle"
    /\ http.completed < MaxRequests
    /\ \E body \in ChatBodies :
        /\ ChatStatus(body) = 0
        /\ LET h == [IdleHttp EXCEPT !.completed = http.completed, !.abandoned = http.abandoned,
                                     !.route = "/v1/chat/completions",
                                     !.body = <<body>>, !.stream = body.stream]
           IN  IF body.stream
               THEN /\ http' = [h EXCEPT !.pc = "accepted", !.status = 200]
                    /\ UNCHANGED <<sessions, added, nextEvent, nextGen, turn>>
               ELSE /\ ProcessMessage(ServerTurn, UserContent(MessagesOf(body)), NoSession, FALSE)
                    /\ http' = Started([h EXCEPT !.pc = "running", !.invoked = TRUE],
                                       turn'[ServerTurn])
    /\ UNCHANGED <<hasContext, toolVars, peerVars, configVars, xcall, built>>

\* The first pull of the body of a streaming response: generate_stream
\* starts and calls process_message(user_message, stream=True); with
\* LocalMemory it raises, and the error frame is yielded in the same step.
HttpStreamStart ==
    /\ http.pc = "accepted"
    /\ ProcessMessage(ServerTurn, UserContent(MessagesOf(http.body[1])), NoSession, TRUE)
    /\ http' = Started([http EXCEPT !.pc = "running", !.invoked = TRUE], turn'[ServerTurn])
    /\ UNCHANGED <<hasContext, toolVars, peerVars, configVars, xcall, built>>

\* Not streaming, model.complete returns or raises: process_message logs
\* and yields the content or the apology, the handler adds it to the text
\* and asks for the next item, the generator is exhausted, and the handler
\* answers; nothing awaits in between.
HttpComplete ==
    /\ http.pc = "running" /\ ~http.stream
    /\ turn[ServerTurn].pc = "model"
    /\ nextEvent < EventsLimit
    /\ \/ \E content \in Contents :
            /\ LogResponse(ServerTurn, turn[ServerTurn], content, "done")
            /\ http' = Responded(Consumed(http, content), turn'[ServerTurn])
       \/ \E e \in ModelErrors :
            /\ HandleError(ServerTurn, turn[ServerTurn], e, "done")
            /\ http' = Responded(Consumed(http, Apology(e)), turn'[ServerTurn])
    /\ UNCHANGED <<nextGen, hasContext, toolVars, peerVars, configVars, xcall, built>>

\* Streaming, the backend delivers a chunk: process_message yields it and
\* generate_stream yields its frame, where it is suspended; an empty chunk
\* gets no frame, and the stream is read on at once.
HttpStreamChunk(chunks) ==
    /\ http.pc = "running" /\ http.stream
    /\ turn[ServerTurn].pc = "stream"
    /\ Len(turn[ServerTurn].response_chunks) < MaxChunks
    /\ \E chunk \in chunks :
        LET k == Chunked(turn[ServerTurn], chunk)
            h == Consumed(http, chunk)
        IN  /\ turn' = [turn EXCEPT ![ServerTurn] = IF h.frames = http.frames THEN Resumed(k) ELSE k]
            /\ http' = h
    /\ UNCHANGED <<sessions, added, nextEvent, nextGen, hasContext, toolVars, peerVars,
                   configVars, xcall, built>>

\* Streaming, the backend's stream ends: process_message logs the response
\* and is exhausted, and generate_stream yields the final frame.
HttpStreamEnd ==
    /\ http.pc = "running" /\ http.stream
    /\ turn[ServerTurn].pc = "stream"
    /\ nextEvent < EventsLimit
    /\ LogResponse(ServerTurn, turn[ServerTurn], Join(turn[ServerTurn].response_chunks), "done")
    /\ http' = Responded(http, turn'[ServerTurn])
    /\ UNCHANGED <<nextGen, hasContext, toolVars, peerVars, configVars, xcall, built>>

\* Streaming, the backend's stream raises: process_message yields the
\* apology and generate_stream the frame of it.
HttpStreamFail ==
    /\ http.pc = "running" /\ http.stream
    /\ turn[ServerTurn].pc = "stream"
    /\ nextEvent < EventsLimit
    /\ \E e \in ModelErrors :
        /\ HandleError(ServerTurn, turn[ServerTurn], e, "yield_sorry")
        /\ http' = Consumed(http, Apology(e))
    /\ UNCHANGED <<nextGen, hasContext, toolVars, peerVars, configVars, xcall, built>>

\* The pull after a chunk frame: generate_stream asks process_message for
\* the next item. After a chunk the stream is read on; after the apology
\* the generator is exhausted and the final frame is yielded.
HttpPull ==
    /\ http.pc = "running" /\ http.stream
    /\ Resume(ServerTurn)
    /\ http' = IF turn'[ServerTurn].pc = "done" THEN Responded(http, turn'[ServerTurn])
               ELSE http
    /\ UNCHANGED <<sessions, added, nextEvent, nextGen, hasContext, toolVars, peerVars,
                   configVars, xcall, built>>

\* The pull after the final or the error frame: generate_stream yields
\* "data: [DONE]" and the response is complete.
HttpStreamDone ==
    /\ http.pc = "closing"
    /\ http' = [http EXCEPT !.pc = "responded", !.frames = Append(http.frames, DoneFrame)]
    /\ UNCHANGED <<toolVars, agentVars, peerVars, configVars, xcall, built>>

\* The client of a streaming response disconnects before the body is
\* complete: the task that sends the body is cancelled. Where that task
\* waits in the pull (process_message awaits the backend), CancelledError
\* goes through process_message, which ends at once; it is no Exception, so
\* nothing is logged. Where generate_stream is suspended at the yield of a
\* frame, process_message stays suspended at its own yield: nothing closes
\* it here. Before the first pull generate_stream never ran; at the final
\* or the error frame process_message is over.
HttpDisconnect ==
    /\ http.stream
    /\ http.pc \in {"accepted", "running", "closing"}
    /\ http' = [http EXCEPT !.pc = "disconnected"]
    /\ turn' = [turn EXCEPT ![ServerTurn].pc = IF @ = "stream" THEN "closed" ELSE @]
    /\ UNCHANGED <<sessions, added, nextEvent, nextGen, hasContext, toolVars, peerVars,
                   configVars, xcall, built>>

\* The event loop's finalizer closes a process_message generator that a
\* disconnected request left suspended at a yield, that of the request just
\* given up or that of an earlier one: GeneratorExit is raised at the yield,
\* no clause of process_message runs and nothing is logged.
HttpFinalize ==
    /\ \/ /\ http.pc = "disconnected"
           /\ turn[ServerTurn].pc \in {"yield_chunk", "yield_sorry"}
           /\ turn' = [turn EXCEPT ![ServerTurn].pc = "closed"]
           /\ UNCHANGED http
       \/ /\ \E i \in DOMAIN http.abandoned :
                /\ http.abandoned[i].pc \in {"yield_chunk", "yield_sorry"}
                /\ http' = [http EXCEPT !.abandoned[i].pc = "closed"]
           /\ UNCHANGED turn
    /\ UNCHANGED <<sessions, added, nextEvent, nextGen, hasContext, toolVars, peerVars,
                   configVars, xcall, built>>

\* The next request can be handled; `completed` counts the requests
\* answered or given up so far for which process_message was called. A
\* process_message still suspended at its yield stays so.
HttpNext ==
    /\ http.pc \in {"responded", "disconnected"}
    /\ http' = [IdleHttp EXCEPT
                    !.completed = http.completed + (IF http.invoked THEN 1 ELSE 0),
                    !.abandoned = IF turn[ServerTurn].pc \in {"yield_chunk", "yield_sorry"}
                                  THEN Append(http.abandoned, turn[ServerTurn])
                                  ELSE http.abandoned]
    /\ turn' = [turn EXCEPT ![ServerTurn] = IdleTurn]
    /\ UNCHANGED <<sessions, added, nextEvent, nextGen, hasContext, toolVars, peerVars,
                   configVars, xcall, built>>

----------------------------------------------------------------------------
(* Specifications *)

\* MCPClient.__init__: an empty cache, nothing in flight.
InitTools ==
    /\ tools = <<>>
    /\ sweep = [d \in Sweeps |-> IdleSweep]
    /\ call = [c \in Calls |-> IdleCall]

\* RemoteAgent.__init__: no card cached; the peer's memory is empty.
InitPeer ==
    /\ agent_card = NoCard
    /\ rcall = [c \in RCalls |-> IdleRCall]
    /\ peerSessions = <<>>
    /\ handlers = <<>>

\* Agent.__init__: no tool client and no sub-agent yet, no card made.
InitConfig ==
    /\ tool_clients = <<>>
    /\ remote_agents = <<>>
    /\ additions = <<>>
    /\ last_card = <<>>

\* No execute_tool call and no request under way.
InitGateway ==
    /\ xcall = IdleXCall
    /\ http = IdleHttp
    /\ built = <<>>

\* Agent.__init__ and LocalMemory.__init__: no session, no turn started.
InitAgentIdle ==
    /\ sessions = <<>>
    /\ nextEvent = 0
    /\ nextGen = 0
    /\ hasContext = FALSE
    /\ turn = [t \in Turns |-> IdleTurn]
    /\ added = <<>>

NextDiscover ==
    \/ \E d \in Sweeps : DiscoverStart(d)
    \/ \E d \in Sweeps : DiscoverProbe(d)

\* Tool discovery: discover_tools invocations on one MCPClient, from its
\* construction on.
InitDiscover == InitTools /\ InitAgentIdle /\ InitPeer /\ InitConfig /\ InitGateway

SpecDiscover == InitDiscover /\ [][NextDiscover]_vars

\* Two discover_tools invocations that can be in flight together.
ConcurrentSweeps == {"d1", "d2"}

\* The answers of the servers to GET while sweeps run together: a list
\* with one tool, or a 500.
RegistryOutcomes ==
    {o \in GetOutcomes :
        \/ o.kind = "status" /\ o.code = 500
        \/ /\ o.kind = "ok" /\ o.data.format = "list"
           /\ Len(o.data.entries) = 1 /\ o.data.entries[1].name \in ToolNames}

\* The answers to POST there: a result, a 404, a 500.
RegistryPostOutcomes ==
    {o \in PostOutcomes :
        \/ o.kind = "status"
        \/ o.kind = "ok" /\ o.data.shape = "dict_result" /\ o.data.val = "v1"}

\* One MCPClient used by several coroutines: sweeps and a call_tool
\* interleave at their awaits.
InitRegistry ==
    /\ tools = <<>>
    /\ sweep = [d \in ConcurrentSweeps |-> IdleSweep]
    /\ call = [c \in Calls |-> IdleCall]
    /\ InitAgentIdle
    /\ InitPeer
    /\ InitConfig
    /\ InitGateway

NextRegistry ==
    \/ \E d \in ConcurrentSweeps : DiscoverStart(d)
    \/ \E d \in ConcurrentSweeps : DiscoverProbeWith(d, RegistryOutcomes)
    \/ \E c \in Calls : CallStart(c)
    \/ \E c \in Calls : CallProbeWith(c, RegistryPostOutcomes)

SpecRegistry == InitRegistry /\ [][NextRegistry]_vars

\* The caches a sweep can leave: for each server the tools of some answer
\* (a server that failed adds nothing), in configuration order.
SweepResults ==
    {Flatten([i \in 1..NumServers |-> ParseEntries(f[i], server_urls[i])]) :
        f \in [Servers -> SeqUpTo(Entries, MaxEntries)]}

\* An MCPClient after any number of sweeps, no call in flight.
InitCall ==
    /\ tools \in SweepResults
    /\ sweep = [d \in Sweeps |-> IdleSweep]
    /\ call = [c \in Calls |-> IdleCall]
    /\ InitAgentIdle
    /\ InitPeer
    /\ InitConfig
    /\ InitGateway

NextCall ==
    \/ \E c \in Calls : CallStart(c)
    \/ \E c \in Calls : CallProbe(c)

\* Tool execution: call_tool invocations on an MCPClient whose cache is
\* what some sweep left.
SpecCall == InitCall /\ [][NextCall]_vars

\* Agent.__init__ with a memory: the repository's LocalMemory, which has no
\* build_conversation_context, or a memory object that provides it.
InitAgent ==
    /\ sessions = <<>>
    /\ nextEvent = 0
    /\ nextGen = 0
    /\ hasContext \in BOOLEAN
    /\ turn = [t \in Turns |-> IdleTurn]
    /\ added = <<>>
    /\ InitTools
    /\ InitPeer
    /\ InitConfig
    /\ InitGateway

\* The steps of the process_message invocations of caller t.
TurnStep(t) ==
    \/ PMStart(t)
    \/ PMComplete(t)
    \/ PMStreamChunk(t)
    \/ PMStreamEnd(t)
    \/ PMStreamFail(t)
    \/ PMResume(t)
    \/ PMClose(t)
    \/ PMReturn(t)

NextMemory ==
    \/ CreateSession
    \/ AddEvent(EventTypes)
    \/ DeleteSession

\* LocalMemory.__init__: an empty memory, which has no
\* build_conversation_context.
InitContext ==
    /\ sessions = <<>>
    /\ nextEvent = 0
    /\ nextGen = 0
    /\ hasContext = FALSE
    /\ turn = [t \in Turns |-> IdleTurn]
    /\ added = <<>>
    /\ InitTools
    /\ InitPeer
    /\ InitConfig
    /\ InitGateway

NextContext ==
    \/ CreateSession
    \/ AddEvent(EventTypes)
    \/ BuildContext

\* Context building: sessions are created and filled, and the context of a
\* session is asked for.
SpecContext == InitContext /\ [][NextContext]_vars

\* Session memory: direct calls of one LocalMemory.
SpecMemory == InitAgent /\ [][NextMemory]_vars

\* An agent whose memory holds some sessions created earlier under explicit
\* ids (create_session calls), none with an event yet.
InitTurn ==
    /\ sessions \in {[k \in S |-> <<>>] : S \in SUBSET ExplicitIds}
    /\ added = sessions
    /\ nextEvent = 0
    /\ nextGen = 0
    /\ hasContext \in BOOLEAN
    /\ turn = [t \in Turns |-> IdleTurn]
    /\ InitTools
    /\ InitPeer
    /\ InitConfig
    /\ InitGateway

NextTurn ==
    \/ TurnStep("t1")
    \/ AddEvent({"tool_call"})

\* The agent core: one caller's process_message invocations, with another
\* writer's add_event calls arriving before, between and at the suspension
\* points of the turns.
SpecTurn == InitTurn /\ [][NextTurn]_vars

NextConcurrent ==
    \/ TurnStep("t1")
    \/ TurnStep("t2")

\* Two callers' process_message invocations on one agent, their segments
\* between suspension points interleaved by the event loop.
SpecConcurrent == InitTurn /\ [][NextConcurrent]_vars

NextIsolation ==
    \/ CreateSession
    \/ AddEvent({"user_message"})
    \/ DeleteSession
    \/ PeerCreateSession
    \/ PeerAddEvent

\* Two agents, each with a LocalMemory of its own, from construction on.
InitIsolation ==
    /\ sessions = <<>>
    /\ added = <<>>
    /\ nextEvent = 0
    /\ nextGen = 0
    /\ hasContext = FALSE
    /\ turn = [t \in Turns |-> IdleTurn]
    /\ InitTools
    /\ InitPeer
    /\ InitConfig
    /\ InitGateway

\* Session memory of two agents: direct calls of the two LocalMemory
\* objects, in any order.
SpecIsolation == InitIsolation /\ [][NextIsolation]_vars

NextPeer ==
    \/ \E c \in RCalls : RemoteDiscover(c)
    \/ \E c \in RCalls : RemoteInvoke(c)
    \/ \E c \in RCalls : Delegate(c)
    \/ \E c \in RCalls : DiscoverDone(c)
    \/ \E c \in RCalls : InvokeReceived(c)
    \/ InvokeAnswered
    \/ \E c \in RCalls : InvokeFailed(c)
    \/ \E c \in RCalls : InvokeDone(c)
    \/ \E c \in RCalls : RemoteReturn(c)

\* A coordinator and its peer, from construction on: the coordinator's
\* memory holds a session whose log delegations would be recorded in.
InitPeerSpec ==
    /\ sessions = [k \in ExplicitIds |-> <<>>]
    /\ added = sessions
    /\ nextEvent = 0
    /\ nextGen = 0
    /\ hasContext \in BOOLEAN
    /\ turn = [t \in Turns |-> IdleTurn]
    /\ InitTools
    /\ InitPeer
    /\ tool_clients = <<>>
    /\ remote_agents = sub_agents
    /\ additions = <<"sub_agent">>
    /\ last_card = <<>>
    /\ InitGateway

\* The calls of the set-up of an agent with one peer: a discover() made on
\* the RemoteAgent by its owner, the add_sub_agent call, and the first
\* delegation.
OwnDiscover == "r0"
Adding == "r1"
FirstDelegation == "r2"
SetupCalls == {OwnDiscover, Adding, FirstDelegation}

\* Agent.__init__ and RemoteAgent.__init__: nothing registered, no card.
InitSetup ==
    /\ agent_card = NoCard
    /\ rcall = [c \in SetupCalls |-> IdleRCall]
    /\ peerSessions = <<>>
    /\ handlers = <<>>
    /\ InitTools
    /\ InitAgentIdle
    /\ InitConfig
    /\ InitGateway

NextSetup ==
    \/ AddTools
    \/ ToolsDiscovered
    \/ RemoteDiscover(OwnDiscover)
    \/ AddSubAgentCall(Adding)
    \/ Delegate(FirstDelegation)
    \/ \E c \in SetupCalls : DiscoverDone(c)

\* The set-up of an agent: add_tools and add_sub_agent with the
\* discoveries they start, and the first delegation to the peer up to the
\* POST of its task (SpecPeer follows the POST).
SpecSetup == InitSetup /\ [][NextSetup]_vars

\* Peer discovery, invocation and delegation.
SpecPeer == InitPeerSpec /\ [][NextPeer]_vars

NextCard ==
    \/ AddTools
    \/ ToolsDiscovered
    \/ AddSubAgentCall(Adding)
    \/ DiscoverDone(Adding)
    \/ RemoteReturn(Adding)
    \/ GetAgentCard

InitCard == InitTools /\ InitAgentIdle /\ InitPeer /\ InitConfig /\ InitGateway

\* The agent's configuration and its card: add_tools, add_sub_agent and
\* get_agent_card calls in any order.
SpecCard == InitCard /\ [][NextCard]_vars

\* The configurations add_tools calls can leave: up to MaxConfigured
\* clients, each with the cache its discovery left.
Configurations ==
    UNION {[1..n -> [cache : ClientCaches, discovering : {FALSE}, failed : BOOLEAN]] :
                n \in 0..MaxConfigured}

\* An agent after its add_tools calls, no execute_tool call under way.
InitExec ==
    /\ tool_clients \in Configurations
    /\ remote_agents = <<>>
    /\ additions = [i \in 1..Len(tool_clients) |-> "tools"]
    /\ last_card = <<>>
    /\ InitTools
    /\ InitAgentIdle
    /\ InitPeer
    /\ InitGateway

NextExec ==
    \/ ExecStart
    \/ ExecProbe

\* Agent.execute_tool over the agent's tool clients.
SpecExec == InitExec /\ [][NextExec]_vars

\* An AgentServer over an agent whose memory provides
\* build_conversation_context or (the repository's LocalMemory) does not.
InitServer ==
    /\ sessions = <<>>
    /\ added = <<>>
    /\ nextEvent = 0
    /\ nextGen = 0
    /\ hasContext \in BOOLEAN
    /\ turn = [t \in Turns |-> IdleTurn]
    /\ InitTools
    /\ InitPeer
    /\ InitConfig
    /\ InitGateway

NextServer ==
    \/ HttpInvoke
    \/ HttpChatRefused
    \/ HttpChat
    \/ HttpStreamStart
    \/ HttpComplete
    \/ HttpStreamChunk(Chunks)
    \/ HttpStreamEnd
    \/ HttpStreamFail
    \/ HttpPull
    \/ HttpStreamDone
    \/ HttpDisconnect
    \/ HttpFinalize
    \/ HttpNext

\* The gateway: requests to /agent/invoke and /v1/chat/completions, handled
\* one after the other, with the steps of the model backend.
SpecServer == InitServer /\ [][NextServer]_vars

\* Chunks of a model whose text holds quotes and the word None: "it's",
\* "None", a double quote, an apostrophe with a double quote, and plain
\* ones.
SseChunks == {<<>>, <<"a">>, <<"it", "'", "s">>, <<"None">>, <<"\"">>, <<"'", "\"">>}

NextFrames ==
    \/ HttpInvoke
    \/ HttpChatRefused
    \/ HttpChat
    \/ HttpStreamStart
    \/ HttpComplete
    \/ HttpStreamChunk(SseChunks)
    \/ HttpStreamEnd
    \/ HttpStreamFail
    \/ HttpPull
    \/ HttpStreamDone
    \/ HttpDisconnect
    \/ HttpFinalize
    \/ HttpNext

\* The gateway streaming the text of such a model.
SpecFrames == InitServer /\ [][NextFrames]_vars

----------------------------------------------------------------------------
(* Claims about tool discovery (SpecDiscover) *)

Finished(pc) == pc \in {"returned", "raised"}

WellFormed(e) == e.kind = "dict" /\ e.name # ""

\* The tools of one server's answer: its well-formed entries, in order.
ServedTools(sv) ==
    LET w == SelectSeq(sv.entries, WellFormed)
    IN  [i \in 1..Len(w) |-> [name |-> w[i].name, server_url |-> sv.server_url]]

\* The tools of the servers that answered, in the order they answered.
ExpectedTools(served) == Flatten([i \in 1..Len(served) |-> ServedTools(served[i])])

\* C6: a sweep in which at least one server answered does not raise; it has
\* gone through every configured server, and it returns and caches exactly
\* the tools of the servers that answered, in configuration order.
C6_PartialSuccess ==
    \A d \in Sweeps :
        LET s == sweep[d]
        IN  (Finished(s.pc) /\ s.served # <<>>) =>
                /\ s.pc = "returned"
                /\ s.srv = NumServers
                /\ \A i, j \in 1..Len(s.served) :
                        i < j => s.served[i].server_url < s.served[j].server_url
                /\ s.result = ExpectedTools(s.served)
                /\ tools = s.result

\* C6 witness: server 1 did not answer, server 2 answered [x, y], and the
\* sweep returned [x, y].
C6_Witness ==
    \E d \in Sweeps :
        /\ sweep[d].pc = "returned"
        /\ Len(sweep[d].served) = 1
        /\ sweep[d].served[1].server_url = 2
        /\ ToolNamesOf(sweep[d].result) = <<"x", "y">>
        /\ tools = sweep[d].result

\* C7: a sweep raises (httpx.HTTPError, the DiscoveryError) exactly when no
\* server answered, and the step that raises leaves the cache as it was.
C7_FailsIffNoneAndKeepsCache ==
    [][\A d \in Sweeps :
        (sweep[d].pc = "probing" /\ Finished(sweep'[d].pc)) =>
            /\ (sweep'[d].pc = "raised") <=> (sweep'[d].served = <<>>)
            /\ sweep'[d].pc = "raised" =>
                    (tools' = tools /\ sweep'[d].error = "HTTPError")]_vars

\* C7 witness: a sweep has raised while the cache holds the tools of an
\* earlier sweep.
C7_Witness ==
    \E d \in Sweeps :
        /\ sweep[d].pc = "raised"
        /\ sweep[d].served = <<>>
        /\ tools # <<>>

\* Every cache a sweep leaves is one of SweepResults, the caches SpecCall
\* starts from.
CacheIsSweepResult == tools \in SweepResults

----------------------------------------------------------------------------
(* Claims about tool execution (SpecCall) *)

\* A failure of one request other than HTTP "not found".
HttpFailure(out) == out.kind = "status" /\ out.code # 404
TransportFailure(out) == out.kind = "neterr"
NotFound(out) == out.kind = "status" /\ out.code = 404

\* C8 as stated: a request that fails with a non-404 status or a transport
\* error is the last request of its call, and the call has failed with
\* ToolExecutionFailed.
C8_AnyFailureAborts ==
    \A c \in Calls :
        \A i \in 1..Len(call[c].requests) :
            LET out == call[c].requests[i].out
            IN  (HttpFailure(out) \/ TransportFailure(out)) =>
                    /\ i = Len(call[c].requests)
                    /\ call[c].pc = "raised"
                    /\ IsToolExecutionFailed(call[c].error)

\* C8 amended: a non-404 status ends the call at once with
\* ToolExecutionFailed; a transport error is handled like "not found": while
\* a candidate path is left the call goes on to it, and after the last path
\* the call fails with ToolExecutionFailed.
C8_StatusAbortsTransportContinues ==
    \A c \in Calls :
        \A i \in 1..Len(call[c].requests) :
            LET k == call[c]
                out == k.requests[i].out
                last == i = Len(k.requests)
            IN  /\ HttpFailure(out) =>
                    (last /\ k.pc = "raised" /\ k.error = "HTTPStatusError")
                /\ (TransportFailure(out) /\ last) =>
                    IF i < 3
                    THEN k.pc = "probing" /\ k.ep = i + 1
                    ELSE k.pc = "raised" /\ k.error = "HTTPError"

\* C8 witness: the first path got a transport error, the second was
\* requested and answered 500, which ended the call.
C8_Witness ==
    \E c \in Calls :
        /\ Len(call[c].requests) = 2
        /\ TransportFailure(call[c].requests[1].out)
        /\ HttpFailure(call[c].requests[2].out)
        /\ call[c].pc = "raised"

\* The result a tool server's body carries: its "result" when it is a dict
\* that has one, else the body.
BodyResult(data) ==
    IF data.shape = "dict_plain" THEN <<"dict", data.val>> ELSE <<"value", data.val>>

\* C9: a call for a cached tool requests /mcp/call, /call, /v1/call in that
\* order at the server of the first cached tool of that name, at most three
\* requests; it returns exactly when a request succeeded, with that body's
\* result and without a later request; and once all three paths have
\* answered "not found" or failed in transport it fails with
\* ToolExecutionFailed.
C9_OrderedFallback ==
    \A c \in Calls :
        LET k == call[c]
            n == Len(k.requests)
            paths == <<"/mcp/call", "/call", "/v1/call">>
        IN  /\ n <= 3
            /\ \A i \in 1..n :
                    /\ k.requests[i].path = paths[i]
                    /\ FindTool(k.name) # 0
                    /\ k.requests[i].server_url = tools[FindTool(k.name)].server_url
            /\ \A i \in 1..(n - 1) : k.requests[i].out.kind # "ok"
            /\ (k.pc = "returned") <=> (n > 0 /\ k.requests[n].out.kind = "ok")
            /\ k.pc = "returned" => k.result = BodyResult(k.requests[n].out.data)
            /\ (n = 3 /\ \A i \in 1..n : NotFound(k.requests[i].out)
                                         \/ TransportFailure(k.requests[i].out)) =>
                    (k.pc = "raised" /\ IsToolExecutionFailed(k.error))

\* C9 witness: /mcp/call answered "not found", /call succeeded, and the
\* call returned its result without requesting /v1/call.
C9_Witness ==
    \E c \in Calls :
        /\ call[c].pc = "returned"
        /\ Len(call[c].requests) = 2
        /\ NotFound(call[c].requests[1].out)
        /\ call[c].requests[2].out.data.shape = "dict_result"
        /\ call[c].result = <<"value", call[c].requests[2].out.data.val>>

\* The names in the cache.
CachedNames == {tools[i].name : i \in 1..Len(tools)}

\* C10: a call for a name that is not in the cache has raised the "not
\* found" ValueError, whose message lists the cached names, and has sent no
\* request.
C10_ToolNotFound ==
    \A c \in Calls :
        (call[c].pc # "idle" /\ call[c].name \notin CachedNames) =>
            /\ call[c].pc = "raised"
            /\ call[c].error = "ValueError:not_found"
            /\ call[c].available = [i \in 1..Len(tools) |-> tools[i].name]
            /\ call[c].requests = <<>>

\* C10 witness: a call for a missing name was refused while the cache
\* holds two tools.
C10_Witness ==
    \E c \in Calls :
        /\ call[c].pc = "raised"
        /\ call[c].error = "ValueError:not_found"
        /\ Len(call[c].available) = 2
        /\ call[c].name \notin CachedNames

----------------------------------------------------------------------------
(* Claims about session memory (SpecMemory) *)

\* C1: for every sequence of add_event calls on an existing session, of
\* whatever event types, get_session_events returns exactly the events the
\* calls were made with, each once, in call order.
C1_EventsInCallOrder ==
    \A sid \in DOMAIN sessions :
        /\ sid \in DOMAIN added
        /\ get_session_events(sid) = added[sid]

\* C1 witness: three events of three types were added to one session, the
\* agent_response before the user_message, and are read back in that order.
C1_Witness ==
    \E sid \in DOMAIN sessions :
        /\ Len(get_session_events(sid)) = 3
        /\ [i \in 1..3 |-> get_session_events(sid)[i].event_type]
                = <<"tool_call", "agent_response", "user_message">>

----------------------------------------------------------------------------
(* Claims about process_message (SpecTurn) *)

\* The events of the turn's session, as get_session_events returns them.
LogOf(k) == get_session_events(k.session_id)

UserEvent(k) ==
    [event_id |-> k.user_event, event_type |-> "user_message", content |-> k.message]

\* The agent_response event of the turn: the full text the backend
\* delivered.
ResponseEvent(k) ==
    [event_id |-> k.response_event, event_type |-> "agent_response",
     content |-> Flatten(k.received)]

IsApology(text) == \E e \in ModelErrors : text = Apology(e)

\* The positions of the event with the given id in a log.
PositionsOf(log, event_id) == {i \in 1..Len(log) : log[i].event_id = event_id}

\* C2 as stated: a turn whose backend call failed has not raised, its
\* session holds exactly one error event of the turn and no agent_response
\* of the turn, and the last text it yielded is the apology.
C2_BackendFailureHandled ==
    \A t \in Turns :
        LET k == turn[t]
        IN  (k.backend = "failed" /\ k.alone) =>
                /\ k.pc # "raised"
                /\ Cardinality(PositionsOf(LogOf(k), k.error_event)) = 1
                /\ \A i \in PositionsOf(LogOf(k), k.error_event) :
                        LogOf(k)[i].event_type = "error"
                /\ k.response_event = 0
                /\ k.yielded # <<>>
                /\ IsApology(k.yielded[Len(k.yielded)])

\* C2 holds of the turns whose session the memory knew: the failure to log
\* the error event is that of C4, a turn on an unknown session id.
C2_OnKnownSession ==
    \A t \in Turns :
        LET k == turn[t]
        IN  (k.backend = "failed" /\ k.alone /\ k.known) =>
                /\ k.pc # "raised"
                /\ Cardinality(PositionsOf(LogOf(k), k.error_event)) = 1
                /\ k.response_event = 0
                /\ k.yielded # <<>>
                /\ IsApology(k.yielded[Len(k.yielded)])

\* C3: in a turn on an existing session the user_message is in the log
\* once the backend is called, and no agent_response of the turn exists
\* until the backend has delivered the full text; with no other writer the
\* log is the one before the turn, then the user_message, then (once the
\* backend has answered) the agent_response with the full text.
C3_UserThenResponse ==
    \A t \in Turns :
        LET k == turn[t]
        IN  /\ k.calls > 0 => k.user_event # 0
            /\ k.response_event # 0 => (k.backend = "ok" /\ k.response_event > k.user_event)
            /\ (k.known /\ k.alone /\ k.backend = "called") =>
                    LogOf(k) = Append(k.base, UserEvent(k))
            /\ (k.known /\ k.alone /\ k.backend = "ok") =>
                    LogOf(k) = k.base \o <<UserEvent(k), ResponseEvent(k)>>

\* C3 witness: a streamed turn on a session that already held an event has
\* ended, after two non-empty chunks, with no other writer.
C3_Witness ==
    \E t \in Turns :
        LET k == turn[t]
        IN  /\ k.pc = "done" /\ k.backend = "ok" /\ k.known /\ k.alone
            /\ k.base # <<>>
            /\ k.received = <<<<"a">>, <<"b">>>>
            /\ Len(LogOf(k)) = Len(k.base) + 2

\* C4 as stated: after a turn has finished, its session exists and holds
\* the user_message of the turn.
C4_SessionEnsured ==
    \A t \in Turns :
        LET k == turn[t]
        IN  (k.pc = "done" /\ k.alone) =>
                /\ k.session_id \in DOMAIN sessions
                /\ \E i \in 1..Len(LogOf(k)) : LogOf(k)[i] = UserEvent(k)

\* What the code does ensure: a turn started without a session id, or with
\* one the memory knew, has its user_message logged.
C4_WhenGeneratedOrKnown ==
    \A t \in Turns :
        LET k == turn[t]
        IN  (k.pc # "idle" /\ k.alone) =>
                /\ k.known <=> k.session_id \in DOMAIN sessions
                /\ k.session_id < 0 => k.known
                /\ k.known => \E i \in 1..Len(LogOf(k)) : LogOf(k)[i] = UserEvent(k)

\* C5 as stated: a streamed turn whose stream ended without error and was
\* read to its end has its agent_response in the session exactly once, the
\* content being the concatenation of the chunks yielded; while chunks are
\* still being yielded the turn has logged no agent_response.
C5_StreamedResponseLogged ==
    \A t \in Turns :
        LET k == turn[t]
        IN  /\ (k.stream /\ k.pc \in {"stream", "yield_chunk"}) => k.response_event = 0
            /\ (k.stream /\ k.pc = "done" /\ k.backend = "ok" /\ k.alone) =>
                    /\ Cardinality(PositionsOf(LogOf(k), k.response_event)) = 1
                    /\ \A i \in PositionsOf(LogOf(k), k.response_event) :
                            /\ LogOf(k)[i].event_type = "agent_response"
                            /\ LogOf(k)[i].content = Flatten(k.yielded)

\* C5 holds of the turns whose session the memory knew.
C5_OnKnownSession ==
    \A t \in Turns :
        LET k == turn[t]
        IN  (k.stream /\ k.pc = "done" /\ k.backend = "ok" /\ k.alone /\ k.known) =>
                /\ Cardinality(PositionsOf(LogOf(k), k.response_event)) = 1
                /\ \A i \in PositionsOf(LogOf(k), k.response_event) :
                        /\ LogOf(k)[i].event_type = "agent_response"
                        /\ LogOf(k)[i].content = Flatten(k.yielded)

----------------------------------------------------------------------------
(* Claims about peer discovery, invocation and delegation (SpecPeer) *)

\* The invocations that went into RemoteAgent.invoke.
Invoking(k) == k.op \in {"invoke", "delegate"} /\ k.requests # <<>>

\* The exception a request outcome of the given kind raises.
ErrorOfKind(kind) ==
    IF kind = "status" THEN "HTTPStatusError"
    ELSE IF kind = "neterr" THEN "RequestError"
    ELSE "ValueError:json"

\* C11: an invoke called with no card cached first sends the GET of the
\* discovery document to card_url; it sends a POST only after that GET
\* succeeded, and to the url of the card the GET brought, path
\* /agent/invoke; when the GET fails its error is raised and no POST is
\* sent.
C11_DiscoverThenPostToCardUrl ==
    \A c \in RCalls :
        LET k == rcall[c]
        IN  (Invoking(k) /\ ~k.had_card) =>
                /\ k.requests[1] = [method |-> "GET", url |-> card_url,
                                    path |-> "/.well-known/agent"]
                /\ Len(k.requests) <= 2
                /\ Len(k.requests) = 2 =>
                        /\ k.outs[1] = "ok"
                        /\ k.fetched # NoCard
                        /\ k.requests[2] = [method |-> "POST", url |-> k.fetched[1].url,
                                            path |-> "/agent/invoke"]
                /\ (k.outs # <<>> /\ k.outs[1] = "ok") => Len(k.requests) = 2
                /\ (k.outs # <<>> /\ k.outs[1] # "ok") =>
                        /\ Len(k.requests) = 1
                        /\ k.pc = "raised"
                        /\ k.error = ErrorOfKind(k.outs[1])

\* C11 witness: an invoke called with no card cached has returned after a
\* GET to card_url and a POST to the card's url, which is another address.
C11_Witness ==
    \E c \in RCalls :
        /\ rcall[c].op = "invoke" /\ ~rcall[c].had_card
        /\ rcall[c].pc = "returned"
        /\ Len(rcall[c].requests) = 2
        /\ rcall[c].requests[2].url = "http://peer-a"
        /\ rcall[c].requests[2].url # card_url

\* C12: the cached card changes only in the step that ends a successful
\* discovery GET, to the card that GET brought; a failed discovery GET
\* leaves it as it was; no step of an invoke called with a card cached, and
\* no outcome of a POST, changes it; a cached card is never cleared.
C12_CardSetOnlyByDiscover ==
    [][/\ agent_card' # agent_card =>
            \E c \in RCalls :
                /\ rcall[c].pc = "get"
                /\ rcall'[c].pc \in {"returned", "post"}
                /\ rcall'[c].outs[Len(rcall'[c].outs)] = "ok"
                /\ agent_card' = rcall'[c].fetched
       /\ \A c \in RCalls :
            (rcall[c].pc = "get" /\ rcall'[c].pc = "raised") => agent_card' = agent_card
       /\ \A c \in RCalls :
            (Invoking(rcall[c]) /\ rcall[c].had_card /\ rcall'[c] # rcall[c]) =>
                agent_card' = agent_card
       /\ \A c \in RCalls :
            (rcall[c].pc = "post" /\ rcall'[c] # rcall[c]) => agent_card' = agent_card
       /\ agent_card # NoCard => agent_card' # NoCard]_vars

\* C12 witness: a discovery has failed and an invoke has failed on a client
\* that had a card cached, and the card is still cached.
C12_Witness ==
    /\ agent_card # NoCard
    /\ \E c, d \in RCalls :
        /\ rcall[c].op = "discover" /\ rcall[c].had_card /\ rcall[c].pc = "raised"
        /\ rcall[d].op = "invoke" /\ rcall[d].had_card /\ rcall[d].pc = "raised"

\* C13 as stated: an invoke called with a card cached sends one request,
\* the POST; and no two invokes are fetching the discovery document at the
\* same time.
C13_SingleDiscoveryFetch ==
    /\ \A c \in RCalls :
        (Invoking(rcall[c]) /\ rcall[c].had_card) =>
            /\ Len(rcall[c].requests) = 1
            /\ rcall[c].requests[1].method = "POST"
    /\ \A c, d \in RCalls :
        (c # d /\ Invoking(rcall[c]) /\ Invoking(rcall[d])) =>
            ~(rcall[c].pc = "get" /\ rcall[d].pc = "get")

\* What the code does ensure of C13: an invoke called with a card cached
\* sends the POST and nothing else.
C13_DiscoveredSendsOnlyPost ==
    \A c \in RCalls :
        (Invoking(rcall[c]) /\ rcall[c].had_card) =>
            /\ Len(rcall[c].requests) = 1
            /\ rcall[c].requests[1].method = "POST"

\* The events of the coordinator's memory that have the given type.
CoordinatorEvents(event_type) ==
    {<<sid, i>> \in (DOMAIN sessions) \X (1..MaxEvents) :
        i <= Len(sessions[sid]) /\ sessions[sid][i].event_type = event_type}

Configured(agent_name) == \E i \in 1..Len(sub_agents) : sub_agents[i] = agent_name

\* C14 as stated: once a delegation to a configured peer has sent its
\* outbound call the coordinator's memory holds a delegation_request, and
\* once it has returned a delegation_response follows that request in the
\* same log.
C14_DelegationEventsLogged ==
    \A c \in RCalls :
        LET k == rcall[c]
        IN  (k.op = "delegate" /\ Configured(k.agent_name) /\ k.requests # <<>>) =>
                \E req \in CoordinatorEvents("delegation_request") :
                    k.pc = "returned" =>
                        \E resp \in CoordinatorEvents("delegation_response") :
                            resp[1] = req[1] /\ resp[2] > req[2]

\* C15: a delegation to a name that is no configured peer ends at once with
\* ValueError (PeerNotFound; 404 at POST /agent/delegate); it sends no
\* request and leaves the coordinator's memory, and the peer's, as they
\* were.
C15_UnknownPeerNotFound ==
    [][\A c \in RCalls :
        (rcall[c].pc = "idle" /\ rcall'[c].op = "delegate"
            /\ ~Configured(rcall'[c].agent_name)) =>
                /\ rcall'[c].pc = "raised"
                /\ rcall'[c].error = "ValueError:sub_agent_not_found"
                /\ rcall'[c].status = 404
                /\ rcall'[c].requests = <<>>
                /\ sessions' = sessions
                /\ CoordinatorEvents("delegation_response")' = {}
                /\ peerSessions' = peerSessions]_vars

\* C15 witness: a delegation to "nobody" has failed while another
\* invocation has a request in flight.
C15_Witness ==
    \E c, d \in RCalls :
        /\ rcall[c].op = "delegate" /\ rcall[c].agent_name = "nobody"
        /\ rcall[c].pc = "raised" /\ rcall[c].status = 404
        /\ rcall[d].pc = "post"

\* The ids of the events in a memory.
EventIds(mem) == {mem[sid][i].event_id : <<sid, i>> \in
                    {<<sid, i>> \in (DOMAIN mem) \X (1..MaxEvents) : i <= Len(mem[sid])}}

\* C16: after any delegations the coordinator's memory holds no event but
\* delegation_request and delegation_response ones and no event or session
\* of the peer's memory; the turn of a delegation that returned is in the
\* peer's memory, in a session of its own: the user_message with the task,
\* then the agent_response with the text returned (the error event, when
\* the peer answered with its apology).
C16_PeerTurnInPeerMemory ==
    /\ \A sid \in DOMAIN sessions : \A i \in 1..Len(sessions[sid]) :
            sessions[sid][i].event_type \in {"delegation_request", "delegation_response"}
    /\ EventIds(sessions) \cap EventIds(peerSessions) = {}
    /\ DOMAIN sessions \cap DOMAIN peerSessions = {}
    /\ \A c \in RCalls :
        LET k == rcall[c]
        IN  (k.op = "delegate" /\ k.pc = "returned") =>
                /\ k.peer_session \in DOMAIN peerSessions
                /\ Len(peerSessions[k.peer_session]) = 2
                /\ peerSessions[k.peer_session][1].event_type = "user_message"
                /\ peerSessions[k.peer_session][1].content = k.task
                /\ \/ /\ peerSessions[k.peer_session][2].event_type = "agent_response"
                      /\ peerSessions[k.peer_session][2].content = k.result
                   \/ /\ peerSessions[k.peer_session][2].event_type = "error"
                      /\ IsApology(k.result)

\* C16 witness: a delegation has returned the peer's text, and the peer's
\* memory holds the turn.
C16_Witness ==
    \E c \in RCalls :
        /\ rcall[c].op = "delegate" /\ rcall[c].pc = "returned"
        /\ rcall[c].result = <<"a", "b">>
        /\ rcall[c].peer_session \in DOMAIN peerSessions
        /\ peerSessions[rcall[c].peer_session][2].event_type = "agent_response"
        /\ sessions # <<>>

----------------------------------------------------------------------------
(* Claims about session memory: isolation and history *)

\* The ids of the events of one session.
IdsOf(events) == {events[i].event_id : i \in 1..Len(events)}

\* The sessions a step created, deleted or changed the events of.
Changed(before, after) ==
    {k \in DOMAIN before \cup DOMAIN after :
        \/ k \notin DOMAIN before
        \/ k \notin DOMAIN after
        \/ before[k] # after[k]}

\* C17: no event is in the logs of two distinct sessions, be they in one
\* LocalMemory or in the memories of two agents (also under the same id);
\* and every operation changes at most one session of one memory, all
\* other sessions keep their event lists.
C17_SessionsIsolated ==
    /\ [](/\ \A a, b \in DOMAIN sessions :
                a # b => IdsOf(sessions[a]) \cap IdsOf(sessions[b]) = {}
          /\ \A a \in DOMAIN sessions, b \in DOMAIN peerSessions :
                IdsOf(sessions[a]) \cap IdsOf(peerSessions[b]) = {})
    /\ [][Cardinality(Changed(sessions, sessions'))
            + Cardinality(Changed(peerSessions, peerSessions')) <= 1]_vars

\* C17 witness: two sessions of one memory and a session of the other
\* agent's memory, under the id of one of them, hold an event each.
C17_Witness ==
    \E a, b \in DOMAIN sessions :
        /\ a # b
        /\ Len(sessions[a]) = 1 /\ Len(sessions[b]) = 1
        /\ a \in DOMAIN peerSessions
        /\ Len(peerSessions[a]) = 1

IsPrefix(a, b) == Len(a) <= Len(b) /\ SubSeq(b, 1, Len(a)) = a

\* C18 as stated: in every step the event list of every session is a
\* prefix of its event list after the step (what get_session_events
\* returns for it: nothing, once the session is gone).
C18_LogsOnlyGrow ==
    [][\A sid \in DOMAIN sessions :
        IsPrefix(sessions[sid],
                 IF sid \in DOMAIN sessions' THEN sessions'[sid] ELSE <<>>)]_vars

\* The events add_event was called with for a session id the memory did
\* not know.
Dropped(hist) == IF NoSession \in DOMAIN hist THEN hist[NoSession] ELSE <<>>

\* C19: a step in which add_event is called with a session id the memory
\* does not know creates no session and leaves every session's event list
\* as it was; on every reachable memory, add_event for any unknown id and
\* any event yields that memory.
C19_UnknownSessionNoOp ==
    /\ [](\A sid \in (ExplicitIds \cup {GeneratedId(n) : n \in 1..MaxGenerated}) \ DOMAIN sessions :
            \A event_type \in EventTypes, content \in Messages :
                add_event(sessions, sid, create_event(event_type, content)) = sessions)
    /\ [][Dropped(added') # Dropped(added) => sessions' = sessions]_vars

\* C19 witness: add_event was called with an unknown session id while a
\* session with an event exists.
C19_Witness ==
    /\ Dropped(added) # <<>>
    /\ \E sid \in DOMAIN sessions :
        /\ sessions[sid] # <<>>
        /\ sessions[sid][1].event_id < Dropped(added)[1].event_id

\* The events a turn has passed to add_event.
TurnEvents(k) == {k.user_event, k.response_event, k.error_event} \ {0}

\* Two invocations of process_message are under way or ended on the same
\* session id.
SameSession(t, u) ==
    /\ t # u
    /\ turn[t].pc # "idle" /\ turn[u].pc # "idle"
    /\ turn[t].session_id = turn[u].session_id

\* The log holds the events of turn k once each, the user_message before
\* the agent_response or error, and no event twice.
AppendsKept(k) ==
    /\ \A e \in TurnEvents(k) : Cardinality(PositionsOf(LogOf(k), e)) = 1
    /\ \A e \in TurnEvents(k) \ {k.user_event} :
        \A i \in PositionsOf(LogOf(k), k.user_event), j \in PositionsOf(LogOf(k), e) : i < j
    /\ \A i, j \in 1..Len(LogOf(k)) :
        LogOf(k)[i].event_id = LogOf(k)[j].event_id => i = j

\* C20 as stated: of two process_message invocations on the same session
\* id no appended event is lost or duplicated, and each invocation's
\* user_message precedes its agent_response or error event in the log.
C20_ConcurrentAppendsKept ==
    \A t, u \in Turns : SameSession(t, u) => AppendsKept(turn[t])

\* C20 holds of the invocations on a session the memory knew: the loss of
\* events is that of C4, a turn on an unknown session id.
C20_OnKnownSession ==
    \A t, u \in Turns :
        (SameSession(t, u) /\ turn[t].known /\ turn[u].known) =>
            /\ AppendsKept(turn[t])
            /\ LogOf(turn[t]) = added[turn[t].session_id]

\* The appends of two invocations on a known session interleave: the second
\* user_message lies between the first invocation's user_message and its
\* agent_response.
C20_Interleaved ==
    \E t, u \in Turns :
        LET k == turn[t]
            j == turn[u]
        IN  /\ SameSession(t, u) /\ k.known /\ j.known
            /\ k.response_event # 0
            /\ k.user_event < j.user_event /\ j.user_event < k.response_event
            /\ Len(LogOf(k)) = 3

----------------------------------------------------------------------------
(* Claims about the tool cache and the discovery probes (SpecDiscover) *)

\* C27 as stated: no two entries of the tool cache have the same name.
C27_UniqueNames ==
    \A i, j \in 1..Len(tools) : tools[i].name = tools[j].name => i = j

\* The probes of the server the sweep is at (or was at last) are over: the
\* sweep has moved on or ended.
ProbingOver(s) ==
    /\ s.probes # <<>>
    /\ \/ Finished(s.pc)
       \/ s.pc = "probing" /\ s.ep = 1 /\ server_urls[s.srv] # s.probed

\* The probes went down the candidate paths in order, none after a
\* success.
ProbesInOrder(s) ==
    /\ Len(s.probes) <= Len(DiscoveryEndpoints)
    /\ \A i \in 1..Len(s.probes) :
        /\ s.probes[i].path = <<"/mcp/tools", "/tools", "/v1/tools">>[i]
        /\ i < Len(s.probes) => s.probes[i].step # "found"

ServerResponded(s) == \E i \in 1..Len(s.served) : s.served[i].server_url = s.probed

\* C28 as stated: a server is probed at /mcp/tools, /tools, /v1/tools in
\* that order until a path returns success: it counts as having responded
\* exactly when a path did, and it is given up only when all three paths
\* were requested without success.
C28_ProbesUntilSuccess ==
    \A d \in Sweeps :
        LET s == sweep[d]
        IN  /\ ProbesInOrder(s)
            /\ ProbingOver(s) =>
                /\ ServerResponded(s) <=> s.probes[Len(s.probes)].step = "found"
                /\ ~ServerResponded(s) => Len(s.probes) = Len(DiscoveryEndpoints)

\* C28 amended: the probing of a server ends with the first path that
\* returns success, answers with an HTTP error status other than 404, or
\* answers with a JSON object whose "tools" cannot be iterated; after a
\* 404, a transport error or a body that is not JSON or is neither a list
\* nor an object the next path is requested. The server counts as having
\* responded exactly when a path returned success, and it is given up
\* when a path ended the probing with an error or all three paths were
\* requested without success.
C28_ProbesUntilSuccessOrStatus ==
    \A d \in Sweeps :
        LET s == sweep[d]
        IN  /\ ProbesInOrder(s)
            /\ \A i \in 1..Len(s.probes) :
                /\ i < Len(s.probes) =>
                    \/ s.probes[i].kind = "status" /\ s.probes[i].code = 404
                    \/ s.probes[i].kind \in {"neterr", "badjson"}
                    \/ s.probes[i].kind = "ok" /\ s.probes[i].error = "ValueError"
                /\ (\/ s.probes[i].kind = "status" /\ s.probes[i].code # 404
                    \/ s.probes[i].error = "TypeError") =>
                    /\ i = Len(s.probes)
                    /\ ProbingOver(s) /\ ~ServerResponded(s)
            /\ ProbingOver(s) =>
                /\ ServerResponded(s) <=> s.probes[Len(s.probes)].step = "found"
                /\ ~ServerResponded(s) =>
                    \/ Len(s.probes) = Len(DiscoveryEndpoints)
                    \/ s.probes[Len(s.probes)].kind = "status"
                    \/ s.probes[Len(s.probes)].error = "TypeError"

\* C28 witness: a server answered 404 at /mcp/tools, did not answer at
\* /tools and returned its tools at /v1/tools; it counts as responded.
C28_Witness ==
    \E d \in Sweeps :
        LET s == sweep[d]
        IN  /\ ProbingOver(s) /\ ServerResponded(s)
            /\ Len(s.probes) = 3
            /\ s.probes[1].kind = "status" /\ s.probes[2].kind = "neterr"
            /\ s.probes[3].path = "/v1/tools"
            /\ s.all_tools # <<>>

\* C29: a response that is a list or a {tools: [...]} envelope yields its
\* well-formed entries in their order whatever malformed entries it holds;
\* at every point of a sweep the tools collected are the well-formed
\* entries of the answers so far, each answer counts as a success, and a
\* sweep with an answer does not raise.
C29_MalformedEntriesSkipped ==
    /\ \A data \in ToolsData :
        data.format \in {"list", "dict"} =>
            /\ ParseToolsResponse(data, 1).ok
            /\ ToolNamesOf(ParseToolsResponse(data, 1).tools)
                 = ToolNamesOf(SelectSeq(data.entries, WellFormed))
    /\ \A d \in Sweeps :
        LET s == sweep[d]
        IN  /\ s.all_tools = ExpectedTools(s.served)
            /\ s.successful_discoveries = Len(s.served)
            /\ (s.pc = "raised" => s.served = <<>>)

\* C29 witness: a sweep returned the one well-formed entry of an answer
\* whose first entry is malformed.
C29_Witness ==
    \E d \in Sweeps :
        LET s == sweep[d]
        IN  /\ s.pc = "returned"
            /\ \E i \in 1..Len(s.served) :
                /\ Len(s.served[i].entries) = 2
                /\ ~WellFormed(s.served[i].entries[1])
                /\ WellFormed(s.served[i].entries[2])
                /\ \E j \in 1..Len(tools) :
                    /\ tools[j].name = s.served[i].entries[2].name
                    /\ tools[j].server_url = s.served[i].server_url

----------------------------------------------------------------------------
(* Claims about the gateway (SpecServer) *)

NonEmpty(chunk) == chunk # <<>>

DonePositions(frames) == {i \in 1..Len(frames) : frames[i].object = "[DONE]"}

\* A streaming chat completion for which process_message was called.
Streaming(h) == h.route = "/v1/chat/completions" /\ h.stream /\ h.invoked

\* C21: a streaming response never holds more than one [DONE] line and
\* nothing after it; once complete it holds exactly one, also when
\* process_message raised; a response whose process_message ran to its end
\* is one chat.completion.chunk frame per non-empty chunk, in order, the
\* frame with finish_reason "stop", and [DONE].
C21_StreamFraming ==
    Streaming(http) =>
        LET k == turn[ServerTurn]
            frames == http.frames
            chunks == SelectSeq(k.yielded, NonEmpty)
        IN  /\ Cardinality(DonePositions(frames)) <= 1
            /\ DonePositions(frames) \subseteq {Len(frames)}
            /\ http.pc = "responded" => DonePositions(frames) = {Len(frames)}
            /\ (http.pc = "responded" /\ k.pc = "done") =>
                /\ Len(frames) = Len(chunks) + 2
                /\ \A i \in 1..Len(chunks) :
                    /\ frames[i].object = "chat.completion.chunk"
                    /\ frames[i].finish_reason = "null"
                    /\ frames[i].content = SseFormat(chunks[i])
                /\ frames[Len(chunks) + 1].object = "chat.completion.chunk"
                /\ frames[Len(chunks) + 1].finish_reason = "stop"

\* C21 witness: a stream of an empty chunk and the chunk "a" was answered
\* with three frames: the chunk, the final frame, [DONE].
C21_Witness ==
    /\ Streaming(http) /\ http.pc = "responded"
    /\ turn[ServerTurn].pc = "done" /\ turn[ServerTurn].backend = "ok"
    /\ turn[ServerTurn].yielded = <<<<>>, <<"a">>>>
    /\ Len(http.frames) = 3

\* C22: /agent/invoke answers 200 with the text and status "completed"
\* whenever process_message yielded something, and 500 only when it yielded
\* nothing.
C22_InvokeStatus ==
    (http.route = "/agent/invoke" /\ http.pc = "responded") =>
        LET k == turn[ServerTurn]
        IN  /\ http.status \in {200, 500}
            /\ k.yielded # <<>> =>
                /\ http.status = 200
                /\ http.response = <<Flatten(k.yielded), "completed">>
            /\ http.status = 500 => (k.yielded = <<>> /\ http.response = <<>>)

\* C22 witness: the backend failed, process_message yielded the apology and
\* /agent/invoke answered 200 with it.
C22_Witness ==
    /\ http.route = "/agent/invoke" /\ http.pc = "responded"
    /\ turn[ServerTurn].backend = "failed"
    /\ http.status = 200
    /\ IsApology(http.response[1])

\* C23: a chat-completions request whose JSON body has no "messages" or an
\* empty list is answered 400 without process_message being called, and
\* the step that answers 400 creates no session and no event.
C23_NoMessagesRefused ==
    /\ [](\A i \in 1..Len(http.body) :
            (http.body[i].json /\ MessagesOf(http.body[i]) = <<>>) =>
                (http.pc = "responded" /\ http.status = 400 /\ ~http.invoked))
    /\ [][(http.pc = "idle" /\ http'.status = 400) =>
            /\ sessions' = sessions
            /\ nextEvent' = nextEvent /\ nextGen' = nextGen
            /\ turn' = turn]_vars

\* C23 witness: after a request that created a session, a request without
\* "messages" was answered 400; the memory holds that one session.
C23_Witness ==
    /\ http.status = 400
    /\ http.body # <<>> /\ ~http.body[1].has_messages
    /\ Cardinality(DOMAIN sessions) = 1
    /\ turn[ServerTurn].pc = "idle"

----------------------------------------------------------------------------
(* Claims about the agent card (SpecCard) *)

CapabilitySet(c) == {c.card.capabilities[i] : i \in 1..Len(c.card.capabilities)}

\* C24 as stated: the card of an agent with no tool client and no sub-agent
\* has the capability set {task_execution}.
C24_OnlyTaskExecution ==
    \A i \in 1..Len(last_card) :
        (last_card[i].tools = <<>> /\ last_card[i].sub_agents = <<>>) =>
            CapabilitySet(last_card[i]) = {"task_execution"}

\* C24 amended: the card of an agent with no tool client and no sub-agent
\* has the capability set {message_processing, task_execution}.
C24_BasicCapabilitiesOnly ==
    \A i \in 1..Len(last_card) :
        (last_card[i].tools = <<>> /\ last_card[i].sub_agents = <<>>) =>
            /\ CapabilitySet(last_card[i]) = {"message_processing", "task_execution"}
            /\ Len(last_card[i].card.capabilities) = 2

\* C24 witness: a card was made before anything was added.
C24_Witness ==
    /\ last_card # <<>>
    /\ last_card[1].additions = <<>>
    /\ last_card[1].card.skills = <<>>

\* C25: every card lists task_execution, lists tool_execution exactly when
\* a tool client is configured and task_delegation exactly when a sub-agent
\* is, in whatever order they were added.
C25_CapabilitiesFollowConfiguration ==
    \A i \in 1..Len(last_card) :
        LET c == last_card[i]
        IN  /\ "task_execution" \in CapabilitySet(c)
            /\ "tool_execution" \in CapabilitySet(c) <=> c.tools # <<>>
            /\ "task_delegation" \in CapabilitySet(c) <=> c.sub_agents # <<>>

\* C25 witness: a sub-agent was added, then a tool client whose discovery
\* found nothing; the card lists both capabilities and no skill.
C25_Witness ==
    /\ last_card # <<>>
    /\ last_card[1].additions = <<"sub_agent", "tools">>
    /\ last_card[1].card.skills = <<>>
    /\ {"tool_execution", "task_delegation"} \subseteq CapabilitySet(last_card[1])

\* C26: every card lists message_processing and task_execution.
C26_BasicCapabilitiesAlways ==
    \A i \in 1..Len(last_card) :
        {"message_processing", "task_execution"} \subseteq CapabilitySet(last_card[i])

\* C26 witness: the card of an agent with two tool clients and two
\* sub-agents.
C26_Witness ==
    /\ last_card # <<>>
    /\ Len(last_card[1].tools) = 2 /\ Len(last_card[1].sub_agents) = 2
    /\ Len(last_card[1].card.capabilities) = 4

----------------------------------------------------------------------------
(* Claims about execute_tool (SpecExec) *)

\* The clients whose cache holds a tool called `name`.
ClientsWith(name) ==
    {i \in 1..Len(tool_clients) :
        \E j \in 1..Len(tool_clients[i].cache) : tool_clients[i].cache[j].name = name}

\* The call went to the first client that has the tool and to no other, and
\* did not end in "not found".
DelegatedToFirst(k) ==
    /\ k.error # "ValueError:not_found_in_any"
    /\ \A n \in 1..Len(k.requests) :
        /\ k.requests[n].client \in ClientsWith(k.name)
        /\ \A i \in ClientsWith(k.name) : k.requests[n].client <= i

\* C30 as stated: execute_tool raises the "not found" error without a
\* request when no client has the tool; otherwise the call is the call_tool
\* of the first client that has it.
C30_ExecuteToolDelegates ==
    xcall.pc # "idle" =>
        IF ClientsWith(xcall.name) = {}
        THEN /\ xcall.pc = "raised"
             /\ xcall.error = "ValueError:not_found_in_any"
             /\ xcall.requests = <<>>
        ELSE DelegatedToFirst(xcall)

\* C30 holds of the calls none of whose requests was answered with a body
\* that is not JSON.
C30_UnlessInvalidJson ==
    (xcall.pc # "idle" /\ \A n \in 1..Len(xcall.requests) : xcall.requests[n].kind # "badjson") =>
        IF ClientsWith(xcall.name) = {}
        THEN /\ xcall.pc = "raised"
             /\ xcall.error = "ValueError:not_found_in_any"
             /\ xcall.requests = <<>>
        ELSE DelegatedToFirst(xcall)

\* The second of two clients has the tool and the call returned its
\* result.
C30_SecondClientCalled ==
    /\ xcall.pc = "returned"
    /\ ClientsWith(xcall.name) = {2}
    /\ xcall.requests # <<>>

----------------------------------------------------------------------------
(* Claims about the turn's backend call and closing event (SpecTurn) *)

ClosingPositions(k) ==
    {i \in 1..Len(LogOf(k)) :
        /\ LogOf(k)[i].event_type \in {"agent_response", "error"}
        /\ LogOf(k)[i].event_id \in {k.response_event, k.error_event} \ {0}}

\* C35 as stated, for the turns that have ended: a turn that appended its
\* user_message has appended exactly one closing event (agent_response or
\* error), also when the caller stopped reading its stream.
C35_ClosingEventLogged ==
    \A t \in Turns :
        LET k == turn[t]
        IN  (k.pc \in Ended /\ PositionsOf(LogOf(k), k.user_event) # {}) =>
                Cardinality(ClosingPositions(k)) = 1

\* C35 holds of the turns that got to the model backend and were read to
\* the end.
C35_WhenReadToTheEnd ==
    \A t \in Turns :
        LET k == turn[t]
        IN  (k.pc = "done" /\ PositionsOf(LogOf(k), k.user_event) # {} /\ k.alone) =>
                Cardinality(ClosingPositions(k)) = 1

\* A streaming caller stopped reading after a chunk: the turn is closed and
\* its session holds the user_message and no closing event.
C35_ClosedWithoutClosingEvent ==
    \E t \in Turns :
        LET k == turn[t]
        IN  /\ k.pc = "closed" /\ k.stream /\ k.yielded # <<>>
            /\ PositionsOf(LogOf(k), k.user_event) # {}
            /\ ClosingPositions(k) = {}

----------------------------------------------------------------------------
(* Claims about execute_tool: failures of the execution (SpecExec) *)

\* C34 as stated: once a client that has the tool has sent a request, the
\* call does not end in "not found", a failure is an execution failure
\* (httpx.HTTPError, or the error of a body that cannot be decoded), and no
\* other client is sent a request for the call.
C34_ExecutionFailurePropagates ==
    xcall.requests # <<>> =>
        /\ xcall.error # "ValueError:not_found_in_any"
        /\ xcall.pc = "raised" =>
            (IsToolExecutionFailed(xcall.error) \/ xcall.error = "ValueError:json")
        /\ \A n \in 1..Len(xcall.requests) :
            xcall.requests[n].client = xcall.requests[1].client

\* C34 holds of the HTTP and transport failures: they leave execute_tool
\* as httpx errors and no other client is asked.
C34_HttpFailuresPropagate ==
    (xcall.requests # <<>> /\ \A n \in 1..Len(xcall.requests) : xcall.requests[n].kind # "badjson") =>
        /\ xcall.pc = "raised" => IsToolExecutionFailed(xcall.error)
        /\ \A n \in 1..Len(xcall.requests) :
            xcall.requests[n].client = xcall.requests[1].client

----------------------------------------------------------------------------
(* Claims about the tool cache under interleaved sweeps and calls
   (SpecRegistry) *)

\* Sweep d leaves discover_tools with a result in this step.
Succeeds(d) == sweep[d].pc = "probing" /\ sweep'[d].pc = "returned"

\* C31: the cache changes only in the step in which a discover_tools call
\* returns, and is then exactly the list that call returns (what an earlier
\* sweep cached and this one did not find is gone); a sweep that raises and
\* every step of call_tool, whatever its outcome, leave the cache as it was.
C31_CacheFrame ==
    [][/\ tools' # tools => \E d \in ConcurrentSweeps : Succeeds(d)
       /\ \A d \in ConcurrentSweeps : Succeeds(d) => tools' = sweep'[d].result
       /\ \A d \in ConcurrentSweeps :
            (sweep[d].pc = "probing" /\ sweep'[d].pc = "raised") => tools' = tools
       /\ call' # call => tools' = tools]_vars

\* C31 witness: a sweep returned and the cache is its result, without a
\* tool that the other sweep had returned; a call_tool has ended in an
\* error.
C31_Witness ==
    \E d, e \in ConcurrentSweeps :
        /\ sweep[d].pc = "returned" /\ tools = sweep[d].result
        /\ sweep[e].pc = "returned"
        /\ \E i \in DOMAIN sweep[e].result :
            \A j \in DOMAIN tools : tools[j] # sweep[e].result[i]
        /\ \E c \in Calls : call[c].pc = "raised" /\ call[c].requests # <<>>

\* The caches one sweep can leave when every server answers with at most
\* one tool.
OneSweepCaches ==
    {c \in SweepResults :
        \A i, j \in DOMAIN c : i # j => c[i].server_url # c[j].server_url}

\* C37: with sweeps and a call_tool interleaved, the cache is at every
\* moment empty or what one sweep collected (never tools of two sweeps); a
\* sweep in flight writes nothing, the sweep that returns stores the tools
\* of its own answers whatever the other sweep did, so after both returned
\* the cache is the result of the one that returned last; call_tool
\* resolves its tool from the cache of that moment.
C37_CacheOfOneSweep ==
    /\ [](tools \in OneSweepCaches)
    /\ [][/\ \A d \in ConcurrentSweeps :
                Succeeds(d) => tools' = ExpectedTools(sweep'[d].served)
          /\ \A d \in ConcurrentSweeps :
                (sweep'[d] # sweep[d] /\ sweep'[d].pc = "probing") => tools' = tools
          /\ \A c \in Calls :
                (call'[c] # call[c] /\ call[c].pc # "probing" /\ call'[c].pc = "probing") =>
                    \E i \in DOMAIN tools : tools[i] = call'[c].tool]_vars

\* C37 witness: a sweep and a call_tool are in flight while the cache is
\* the result of the other sweep; the sweep in flight has collected a
\* tool the cache does not hold, and the call resolved a tool the cache no
\* longer holds.
C37_Witness ==
    \E d, e \in ConcurrentSweeps :
        /\ sweep[d].pc = "probing" /\ sweep[d].all_tools # <<>>
        /\ \A j \in DOMAIN tools : tools[j] # sweep[d].all_tools[1]
        /\ sweep[e].pc = "returned" /\ tools = sweep[e].result /\ tools # <<>>
        /\ \E c \in Calls :
            /\ call[c].pc = "probing"
            /\ \A j \in DOMAIN tools : tools[j] # call[c].tool

----------------------------------------------------------------------------
(* Claims about the conversation context (SpecContext) *)

\* The events appended to a session so far, in the order of the appends.
AppendedTo(session_id) ==
    IF session_id \in DOMAIN sessions /\ session_id \in DOMAIN added
    THEN added[session_id] ELSE <<>>

\* C33 as stated: building the conversation context of a session that
\* holds n events gives its last min(n, 10) events in the order they were
\* appended, and no earlier event.
C33_ContextWindow ==
    [][built' # built =>
        LET b == built'[1]
            log == AppendedTo(b.session_id)
            n == Len(log)
            m == IF n < 10 THEN n ELSE 10
        IN  /\ b.error = ""
            /\ Len(b.context) = m
            /\ \A i \in 1..m : b.context[i] = log[n - m + i]]_vars

\* The context of a session that holds three events was asked for: the
\* call raised AttributeError and nothing was rendered.
C33_ContextCallRaises ==
    /\ built # <<>>
    /\ built[1].session_id \in DOMAIN sessions
    /\ Len(sessions[built[1].session_id]) = 3
    /\ built[1].error = "AttributeError" /\ built[1].context = <<>>

----------------------------------------------------------------------------
(* Claims about the text of the SSE frames (SpecFrames) *)

\* What a JSON parser makes of a chunk frame. The frame is the str() of a
\* dict with every apostrophe replaced by a double quote: the content is
\* delimited by double quotes, and a quote character of the chunk stands
\* in it as a bare double quote, which ends the string early.
JsonLoads(frame) ==
    LET c == frame.content
        Escaped(i) == i > 1 /\ c[i - 1] = "\\"
        NotBackslash(tok) == tok # "\\"
    IN  IF \E i \in DOMAIN c : c[i] = "\"" /\ ~Escaped(i)
        THEN [valid |-> FALSE, content |-> <<>>]
        ELSE [valid |-> TRUE, content |-> SelectSeq(c, NotBackslash)]

\* The chunk frames of a response, in order.
IsChunkFrame(frame) == frame.object = "chat.completion.chunk" /\ frame.finish_reason = "null"

\* A chunk without a quote character and without the word None.
IsPlain(chunk) == \A i \in DOMAIN chunk : chunk[i] \notin {"'", "\"", "None"}

\* C38 as stated: the frame of every non-empty chunk is valid JSON and its
\* delta.content is the chunk's text, whatever the chunk holds.
C38_FramesCarryChunks ==
    Streaming(http) =>
        LET chunks == SelectSeq(turn[ServerTurn].yielded, NonEmpty)
            frames == SelectSeq(http.frames, IsChunkFrame)
        IN  \A i \in 1..Len(frames) :
                /\ JsonLoads(frames[i]).valid
                /\ JsonLoads(frames[i]).content = chunks[i]

\* C38 holds of the chunks without quote characters and the word None.
C38_PlainChunksCarried ==
    Streaming(http) =>
        LET chunks == SelectSeq(turn[ServerTurn].yielded, NonEmpty)
            frames == SelectSeq(http.frames, IsChunkFrame)
        IN  \A i \in 1..Len(frames) :
                IsPlain(chunks[i]) =>
                    /\ JsonLoads(frames[i]).valid
                    /\ JsonLoads(frames[i]).content = chunks[i]

\* The chunk None was sent as a frame that is valid JSON and whose content
\* is null.
C38_NoneBecomesNull ==
    /\ Streaming(http) /\ http.frames # <<>> /\ IsChunkFrame(http.frames[1])
    /\ turn[ServerTurn].yielded # <<>>
    /\ turn[ServerTurn].yielded[1] = <<"None">>
    /\ JsonLoads(http.frames[1]).valid
    /\ JsonLoads(http.frames[1]).content = <<"null">>

----------------------------------------------------------------------------
(* Claims about the sessions of the gateway's requests (SpecServer) *)

\* The request being handled has called process_message.
InFlight == http.invoked /\ http.pc # "idle"

\* A session that holds one finished turn: a user_message, then an
\* agent_response or an error.
IsOneTurn(events) ==
    /\ Len(events) = 2
    /\ events[1].event_type = "user_message"
    /\ events[2].event_type \in {"agent_response", "error"}

\* The memory holds one session per request passed on to process_message,
\* and the session of the request being handled starts with this request's
\* user_message.
C36_OwnSessionPerRequest ==
    LET k == turn[ServerTurn]
    IN  /\ Cardinality(DOMAIN sessions) = http.completed + (IF InFlight THEN 1 ELSE 0)
        /\ InFlight =>
            /\ k.session_id \in DOMAIN sessions
            /\ sessions[k.session_id] # <<>>
            /\ sessions[k.session_id][1].event_id = k.user_event

\* C36 as stated: every request that is passed on to process_message gets a
\* session of its own: the memory holds one session per such request, the
\* session of the request being handled starts with this request's
\* user_message, and the session of every request that is over holds
\* exactly a user_message followed by an agent_response or an error.
C36_SessionPerRequest ==
    /\ C36_OwnSessionPerRequest
    /\ \A sid \in DOMAIN sessions :
        (~InFlight \/ sid # turn[ServerTurn].session_id \/ http.pc = "responded") =>
            IsOneTurn(sessions[sid])

\* A request to /agent/invoke was answered 500 by the repository's own
\* memory and its session holds the user_message alone.
C36_AnsweredWithoutClosingEvent ==
    /\ ~hasContext
    /\ http.route = "/agent/invoke" /\ http.pc = "responded" /\ http.status = 500
    /\ turn[ServerTurn].session_id \in DOMAIN sessions
    /\ Len(sessions[turn[ServerTurn].session_id]) = 1

\* With a memory that builds the context, a streaming client left while
\* process_message was suspended at a yield, the next request was taken up
\* and the generator was closed later: the session of the request that was
\* given up holds the user_message alone.
C36_DisconnectedWithoutClosingEvent ==
    /\ hasContext
    /\ \E i \in DOMAIN http.abandoned :
        /\ http.abandoned[i].pc = "closed"
        /\ Len(sessions[http.abandoned[i].session_id]) = 1

\* With a memory that builds the context, the session of every request
\* that was answered in full holds exactly one turn.
C36_WhenAnsweredFromModel ==
    (hasContext /\ http.invoked /\ http.pc = "responded") =>
        IsOneTurn(sessions[turn[ServerTurn].session_id])

----------------------------------------------------------------------------
(* Claims about add_tools and add_sub_agent when discovery fails
   (SpecSetup) *)

\* The card the agent would hand out now.
CardNow == get_agent_card(tool_clients, remote_agents, base_url)

CapabilitiesNow == {CardNow.capabilities[i] : i \in 1..Len(CardNow.capabilities)}

\* The add_sub_agent call has returned after its discovery failed.
DiscoveryFailed(k) == k.op = "add_sub_agent" /\ k.pc = "returned" /\ k.warned # ""

\* The first delegation to the registered peer starts in this step.
DelegationStarts ==
    /\ rcall[FirstDelegation].pc = "idle"
    /\ rcall'[FirstDelegation].op = "delegate"
    /\ rcall'[FirstDelegation].pc # "raised"

\* add_tools and add_sub_agent do not raise when the discovery fails, and
\* the client or peer is registered and counted in the capabilities.
RegisteredDespiteFailure ==
    /\ rcall[Adding].pc # "raised"
    /\ \A i \in 1..Len(tool_clients) :
        tool_clients[i].failed =>
            /\ ~tool_clients[i].discovering
            /\ "tool_execution" \in CapabilitiesNow
    /\ DiscoveryFailed(rcall[Adding]) =>
        /\ \E i \in 1..Len(remote_agents) : remote_agents[i] = rcall[Adding].agent_name
        /\ "task_delegation" \in CapabilitiesNow

\* C39 as stated: add_tools and add_sub_agent never raise when their
\* discovery fails, the client or peer stays registered and counts for the
\* capabilities, a tool client whose discovery failed contributes no skill,
\* and the first delegation to a peer whose discovery failed starts with
\* the discovery GET.
C39_FailedDiscoveryTolerated ==
    /\ [](/\ RegisteredDespiteFailure
          /\ \A i \in 1..Len(tool_clients) :
                tool_clients[i].failed => Skills(<<tool_clients[i]>>) = <<>>)
    /\ [][(DiscoveryFailed(rcall[Adding]) /\ DelegationStarts) =>
            rcall'[FirstDelegation].requests = <<GetCard>>]_vars

\* C39, amended: add_tools and add_sub_agent never raise when their
\* discovery fails and the client or peer stays registered and counts for
\* the capabilities; a failed discovery leaves the client's cache, and so
\* its skills, what they were (none for a client that had cached nothing),
\* and leaves the peer's card what it was; no card is cached unless some
\* discovery fetched one, and a delegation that finds no card starts with
\* the discovery GET (one that finds a card posts to it).
C39_FailedDiscoveryKeepsEarlier ==
    /\ [](/\ RegisteredDespiteFailure
          /\ agent_card = NoCard <=> \A c \in SetupCalls : rcall[c].fetched = NoCard)
    /\ [][/\ \A i \in 1..Len(tool_clients) :
                (tool_clients[i].discovering /\ tool_clients'[i].failed) =>
                    /\ tool_clients'[i].cache = tool_clients[i].cache
                    /\ Skills(<<tool_clients'[i]>>) = Skills(<<tool_clients[i]>>)
          /\ (rcall[Adding].pc = "get" /\ DiscoveryFailed(rcall'[Adding])) =>
                agent_card' = agent_card
          /\ DelegationStarts =>
                (rcall'[FirstDelegation].requests = <<GetCard>> <=> agent_card = NoCard)]_vars

\* C39 witness: a new tool client's discovery failed and it has no skill;
\* the peer's discovery in add_sub_agent failed, no card is cached, and
\* the first delegation has sent the discovery GET.
C39_Witness ==
    /\ \E i \in 1..Len(tool_clients) :
        tool_clients[i].failed /\ tool_clients[i].cache = <<>>
    /\ CardNow.skills = <<>>
    /\ CapabilitiesNow = {"message_processing", "task_execution", "tool_execution",
                          "task_delegation"}
    /\ DiscoveryFailed(rcall[Adding])
    /\ agent_card = NoCard
    /\ rcall[FirstDelegation].op = "delegate"
    /\ rcall[FirstDelegation].pc = "get"
    /\ rcall[FirstDelegation].requests = <<GetCard>>

\* A client that had cached a tool before add_tools keeps it, and its
\* skill, after the discovery of add_tools failed.
C39_EarlierSkillsKept ==
    \E i \in 1..Len(tool_clients) :
        tool_clients[i].failed /\ Skills(<<tool_clients[i]>>) # <<>>

\* The peer had a card from a discover() of its owner; the discovery of
\* add_sub_agent failed and the first delegation posts without discovering.
C39_NoRediscovery ==
    /\ DiscoveryFailed(rcall[Adding])
    /\ rcall[FirstDelegation].op = "delegate"
    /\ rcall[FirstDelegation].pc = "post"
    /\ Len(rcall[FirstDelegation].requests) = 1

====
